---- MODULE Spec2Model ----
(***************************************************************************)
(* Model of the AskMyNotes backend: the retrieval helpers (chunkText,      *)
(* tokenize, scoreChunk) and the chat, study and grade request handlers.   *)
(*                                                                         *)
(* A JavaScript string is a sequence of one-character strings.             *)
(***************************************************************************)
EXTENDS Integers, Sequences, FiniteSets, TLC

VARIABLES
    cText,       \* chunkText: the argument text
    cMax,        \* chunkText: the argument maxChars
    cParas,      \* chunkText: const paragraphs
    cIdx,        \* chunkText: position of the for-of loop in paragraphs
    cCurrent,    \* chunkText: let current
    cChunks,     \* chunkText: const chunks
    cStart,      \* chunkText: let start of the hard-split loop
    cPc,         \* chunkText: control position
    sQuestion,   \* scoreChunk: the argument question
    sChunk,      \* scoreChunk: the argument chunkTextValue
    sScore,      \* scoreChunk: the returned score
    sPc,         \* scoreChunk: control position
    openai,      \* whether the module-level OpenAI client is set
    notes,       \* the rows of table notes
    req,         \* the request being handled: route, req.user.userId, req.body
    hPc,         \* position of the handler: idle, fetch, provider, done
    hNotes,      \* the handler's const notes: the rows the note query gave
    scoredChunks,\* chat: scoredChunks as mapped, before the in-place sort
    topChunks,   \* chat: topChunks
    completion,  \* the outcome of openai.chat.completions.create
    res,         \* the response sent: status and JSON body
    fetches,     \* number of note queries issued by the request
    providerCalls, \* number of provider calls issued by the request
    folders,     \* the rows of table folders
    creates,     \* POST /api/folders: the requests in flight, with their position
    nextId,      \* the number of folder rows inserted so far
    kScore,      \* computeConfidence: the argument topScore
    kPolicy,     \* computeConfidence: which of the two definitions is called
    kLabel,      \* computeConfidence: the returned label
    kPc,         \* computeConfidence: control position
    xContext,    \* chat: contextNotes of the request body
    xMessages,   \* chat: historyMessages
    xHistory,    \* chat: the conversation_history string of the system prompt
    xPc,         \* chat: position of the history assembly
    tText,       \* tokenize: the argument text
    tTokens,     \* tokenize: the returned tokens
    tAgain,      \* tokenize: the tokens of the returned tokens joined by spaces
    tPc,         \* tokenize: control position
    contextText  \* chat: contextText

chunkVars == <<cText, cMax, cParas, cIdx, cCurrent, cChunks, cStart, cPc>>
scoreVars == <<sQuestion, sChunk, sScore, sPc>>

apiVars == <<openai, notes, req, hPc, hNotes, scoredChunks, topChunks, completion, res,
             fetches, providerCalls>>

folderVars == <<folders, creates, nextId>>
confVars == <<kScore, kPolicy, kLabel, kPc>>
histVars == <<xContext, xMessages, xHistory, xPc>>

\* the variables outside the chunker, the scorer and the three AI routes
tokVars == <<tText, tTokens, tAgain, tPc>>

\* the variables added to the chat route and the tokenizer
moreVars == <<tokVars, contextText>>

restVars == <<folderVars, confVars, histVars, moreVars>>

vars == <<chunkVars, scoreVars, apiVars, restVars>>

-----------------------------------------------------------------------------
(* Bounds of the model *)

MaxTextLen == 5
MaxParaTextLen == 11
MaxMaxChars == 4
MaxQuestionLen == 3
MaxChunkLen == 5
MaxNotes == 2

-----------------------------------------------------------------------------
(* JavaScript strings *)

NL == "\n"
SP == " "

\* the characters of a string literal
Chars(str) == [i \in 1..Len(str) |-> SubSeq(str, i, i)]

\* the value of a missing argument
Undefined == <<"<undefined>">>

\* the characters matched by \s and removed by String.prototype.trim
IsSpace(c) == c \in {" ", "\n", "\t", "\r"}

SliceInclusive(s, start, end) ==
    SubSeq(s, start + 1, IF end + 1 > Len(s) THEN Len(s) ELSE end + 1)

\* String.prototype.slice(start, end) with 0-based, in-range start
Slice(s, start, end) ==
    SubSeq(s, start + 1, IF end > Len(s) THEN Len(s) ELSE end)

\* a trim that removes spaces only
TrimSpacesOnly(s) ==
    IF \A i \in 1..Len(s) : s[i] = SP
    THEN <<>>
    ELSE LET first == CHOOSE i \in 1..Len(s) :
                          s[i] # SP /\ \A j \in 1..(i - 1) : s[j] = SP
             last  == CHOOSE i \in 1..Len(s) :
                          s[i] # SP /\ \A j \in (i + 1)..Len(s) : s[j] = SP
         IN  SubSeq(s, first, last)

\* String.prototype.trim
Trim(s) ==
    IF \A i \in 1..Len(s) : IsSpace(s[i])
    THEN <<>>
    ELSE LET first == CHOOSE i \in 1..Len(s) :
                          ~IsSpace(s[i]) /\ \A j \in 1..(i - 1) : IsSpace(s[j])
             last  == CHOOSE i \in 1..Len(s) :
                          ~IsSpace(s[i]) /\ \A j \in (i + 1)..Len(s) : IsSpace(s[j])
         IN  SubSeq(s, first, last)

\* the characters of s that are not whitespace, in order
NonSpace(s) == SelectSeq(s, LAMBDA c : ~IsSpace(c))

\* Index of the last character of the match of /\n\s*\n/ that starts at
\* index q of s, or 0 when the expression does not match there.  \s* is
\* greedy: the match runs to the last newline of the whitespace run.
ParaMatchEnd(s, q) ==
    IF s[q] # NL THEN 0
    ELSE LET ends == {j \in (q + 1)..Len(s) :
                         s[j] = NL /\ \A k \in (q + 1)..(j - 1) : IsSpace(s[k])}
         IN  IF ends = {} THEN 0
             ELSE CHOOSE j \in ends : \A k \in ends : k <= j

\* Index of the first match of /\n\s*\n/ in s at or after index p, or 0
ParaMatchStart(s, p) ==
    IF \A i \in p..Len(s) : ParaMatchEnd(s, i) = 0 THEN 0
    ELSE CHOOSE i \in p..Len(s) :
             ParaMatchEnd(s, i) # 0 /\ \A j \in p..(i - 1) : ParaMatchEnd(s, j) = 0

RECURSIVE SplitFrom(_, _)
\* the pieces of s from index p on: the text up to the next separator, then
\* the pieces after it
SplitFrom(s, p) ==
    LET q == ParaMatchStart(s, p)
    IN  IF q = 0 THEN <<SubSeq(s, p, Len(s))>>
        ELSE <<SubSeq(s, p, q - 1)>> \o SplitFrom(s, ParaMatchEnd(s, q) + 1)

\* text.split(/\n\s*\n/)
SplitParagraphs(s) == SplitFrom(s, 1)

-----------------------------------------------------------------------------
(* JavaScript values *)

Undef == [t |-> "undefined", v |-> <<>>]
Null == [t |-> "null", v |-> <<>>]
Bool(b) == [t |-> "boolean", v |-> b]
Num(n) == [t |-> "number", v |-> n]
Str(s) == [t |-> "string", v |-> s]
Arr(items) == [t |-> "array", v |-> items]
Obj(fields) == [t |-> "object", v |-> fields]

\* ToBoolean
Truthy(x) ==
    CASE x.t \in {"undefined", "null"} -> FALSE
      [] x.t = "boolean" -> x.v
      [] x.t = "number" -> x.v # 0
      [] x.t = "string" -> x.v # <<>>
      [] OTHER -> TRUE

\* property access x[name] throws a TypeError on undefined and null
CanRead(x) == x.t \notin {"undefined", "null"}

\* x[name] for a data property or length, where CanRead(x)
Get(x, name) ==
    CASE x.t = "object" -> IF name \in DOMAIN x.v THEN x.v[name] ELSE Undef
      [] x.t \in {"string", "array"} /\ name = "length" -> Num(Len(x.v))
      [] OTHER -> Undef

\* the decimal digits of a natural number
DigitChars == <<"0", "1", "2", "3", "4", "5", "6", "7", "8", "9">>

RECURSIVE NatToString(_)
NatToString(n) ==
    IF n < 10 THEN <<DigitChars[n + 1]>>
    ELSE NatToString(n \div 10) \o <<DigitChars[(n % 10) + 1]>>

RECURSIVE JsToString(_)
RECURSIVE JoinComma(_)
\* Array.prototype.join(','): null and undefined elements give ''
JoinComma(items) ==
    IF items = <<>> THEN <<>>
    ELSE LET h == IF CanRead(Head(items)) THEN JsToString(Head(items)) ELSE <<>>
         IN  IF Len(items) = 1 THEN h
             ELSE h \o <<",">> \o JoinComma(Tail(items))

\* JsToString, as applied by a template literal and by + with a string
JsToString(x) ==
    CASE x.t = "undefined" -> Chars("undefined")
      [] x.t = "null" -> Chars("null")
      [] x.t = "boolean" -> IF x.v THEN Chars("true") ELSE Chars("false")
      [] x.t = "number" -> IF x.v < 0 THEN <<"-">> \o NatToString(-x.v)
                           ELSE NatToString(x.v)
      [] x.t = "string" -> x.v
      [] x.t = "array" -> JoinComma(x.v)
      [] OTHER -> Chars("[object Object]")

\* strings and arrays have a method includes
HasIncludes(x) == x.t \in {"string", "array"}

\* String.prototype.includes(pattern)
StringIncludes(s, pattern) ==
    \E i \in 1..(Len(s) - Len(pattern) + 1) :
        SubSeq(s, i, i + Len(pattern) - 1) = pattern

\* x.includes(pattern) for a string pattern, where HasIncludes(x)
Includes(x, pattern) ==
    IF x.t = "string" THEN StringIncludes(x.v, pattern)
    ELSE \E i \in 1..Len(x.v) : x.v[i] = Str(pattern)

-----------------------------------------------------------------------------
(* State of the request handlers *)

NoRequest == [route |-> "none", userId |-> "", body |-> Undef]
NoCompletion == [kind |-> "none", parses |-> FALSE, value |-> Undef]
NoResponse == [status |-> 0, body |-> Undef]
\* the value of const notes before the note query has resolved
NotFetched == <<[user_id |-> "", folder_id |-> <<>>, title |-> Undef, content |-> Undef]>>

ApiIdle ==
    /\ openai = FALSE
    /\ notes = <<>>
    /\ req = NoRequest
    /\ hPc = "idle"
    /\ hNotes = NotFetched
    /\ scoredChunks = <<>>
    /\ topChunks = <<>>
    /\ completion = NoCompletion
    /\ res = NoResponse
    /\ fetches = 0
    /\ providerCalls = 0

FolderIdle ==
    /\ folders = <<>>
    /\ creates = <<>>
    /\ nextId = 0

ConfIdle ==
    /\ kScore = 0
    /\ kPolicy = "none"
    /\ kLabel = "none"
    /\ kPc = "idle"

HistIdle ==
    /\ xContext = <<>>
    /\ xMessages = <<>>
    /\ xHistory = <<>>
    /\ xPc = "idle"

MoreIdle ==
    /\ tText = <<>>
    /\ tTokens = <<>>
    /\ tAgain = <<>>
    /\ tPc = "idle"
    /\ contextText = <<>>

RestIdle == FolderIdle /\ ConfIdle /\ HistIdle /\ MoreIdle

-----------------------------------------------------------------------------
(* chunkText as a function *)

Sep == <<NL, NL>>

\* a test that allows for the separator on the wrong side
FitsWithSlack(current, paragraph, maxChars) ==
    Len(current \o paragraph) <= maxChars + Len(Sep)

\* a test that leaves the separator out
FitsNoSeparator(current, paragraph, maxChars) ==
    Len(current \o paragraph) <= maxChars

\* a test that flushes a buffer the paragraph would just fit into
FitsStrict(current, paragraph, maxChars) ==
    Len(current \o Sep \o paragraph) < maxChars

\* the test of the paragraph loop: (current + '\n\n' + paragraph).length <= maxChars
Fits(current, paragraph, maxChars) ==
    Len(current \o Sep \o paragraph) <= maxChars

RECURSIVE HardSplit(_, _, _)
\* the while loop of chunkText: the slices of paragraph from offset start
HardSplit(paragraph, start, maxChars) ==
    IF start < Len(paragraph)
    THEN <<Slice(paragraph, start, start + maxChars)>>
             \o HardSplit(paragraph, start + maxChars, maxChars)
    ELSE <<>>

\* one iteration of the for-of loop of chunkText over the state
\* [current, chunks]
ChunkStep(st, p, maxChars) ==
    LET paragraph == Trim(p)
        flushed   == IF st.current # <<>> THEN Append(st.chunks, st.current)
                     ELSE st.chunks
    IN  IF paragraph = <<>> THEN st
        ELSE IF Fits(st.current, paragraph, maxChars)
        THEN [st EXCEPT !.current = IF st.current # <<>>
                                    THEN st.current \o Sep \o paragraph
                                    ELSE paragraph]
        ELSE IF Len(paragraph) <= maxChars
        THEN [current |-> paragraph, chunks |-> flushed]
        ELSE [current |-> <<>>,
              chunks  |-> flushed \o HardSplit(paragraph, 0, maxChars)]

RECURSIVE ChunkLoop(_, _, _, _)
ChunkLoop(st, paragraphs, i, maxChars) ==
    IF i > Len(paragraphs) THEN st
    ELSE ChunkLoop(ChunkStep(st, paragraphs[i], maxChars), paragraphs, i + 1, maxChars)

\* chunkText(text, maxChars)
chunkText(text, maxChars) ==
    IF text = Undefined \/ text = <<>> THEN <<>>
    ELSE LET st == ChunkLoop([current |-> <<>>, chunks |-> <<>>],
                             SplitParagraphs(text), 1, maxChars)
         IN  IF st.current # <<>> THEN Append(st.chunks, st.current)
             ELSE st.chunks

-----------------------------------------------------------------------------
(* chunkText step by step *)

ChunkAlphabet == {"a", "b", SP, NL}
ParaAlphabet == {"a", NL}
WhiteAlphabet == {SP, NL, "\t"}

RECURSIVE StringsUpTo(_, _)
\* the strings over alphabet of length at most n
StringsUpTo(alphabet, n) ==
    IF n = 0 THEN {<<>>}
    ELSE LET shorter == StringsUpTo(alphabet, n - 1)
         IN  shorter \cup {Append(s, c) : s \in shorter, c \in alphabet}

ChunkIdle ==
    /\ cText = <<>>
    /\ cMax = 1
    /\ cParas = <<>>
    /\ cIdx = 0
    /\ cCurrent = <<>>
    /\ cChunks = <<>>
    /\ cStart = 0
    /\ cPc = "idle"

ScoreIdle ==
    /\ sQuestion = <<>>
    /\ sChunk = <<>>
    /\ sScore = 0
    /\ sPc = "idle"

ChunkInit ==
    /\ ScoreIdle
    /\ ApiIdle
    /\ RestIdle
    /\ cText \in StringsUpTo(ChunkAlphabet, MaxTextLen)
                   \cup StringsUpTo(ParaAlphabet, MaxParaTextLen)
                   \cup StringsUpTo(WhiteAlphabet, MaxTextLen)
                   \cup {Undefined}
    /\ cMax \in 1..MaxMaxChars
    /\ cParas = <<>>
    /\ cIdx = 0
    /\ cCurrent = <<>>
    /\ cChunks = <<>>
    /\ cStart = 0
    /\ cPc = "call"

\* if (!text) return chunks
ChunkReturnEmpty ==
    /\ cPc = "call"
    /\ cText = Undefined \/ cText = <<>>
    /\ cPc' = "done"
    /\ UNCHANGED <<cText, cMax, cParas, cIdx, cCurrent, cChunks, cStart>>
    /\ UNCHANGED <<scoreVars, apiVars, restVars>>

\* const paragraphs = text.split(/\n\s*\n/); let current = ''
ChunkSplit ==
    /\ cPc = "call"
    /\ ~(cText = Undefined \/ cText = <<>>)
    /\ cParas' = SplitParagraphs(cText)
    /\ cIdx' = 1
    /\ cCurrent' = <<>>
    /\ cPc' = "loop"
    /\ UNCHANGED <<cText, cMax, cChunks, cStart>>
    /\ UNCHANGED <<scoreVars, apiVars, restVars>>

\* if (!paragraph) continue
ChunkSkip ==
    /\ cPc = "loop"
    /\ cIdx <= Len(cParas)
    /\ Trim(cParas[cIdx]) = <<>>
    /\ cIdx' = cIdx + 1
    /\ UNCHANGED <<cText, cMax, cParas, cCurrent, cChunks, cStart, cPc>>
    /\ UNCHANGED <<scoreVars, apiVars, restVars>>

\* the paragraph fits: current = current ? current + '\n\n' + paragraph : paragraph
ChunkAccumulate ==
    /\ cPc = "loop"
    /\ cIdx <= Len(cParas)
    /\ LET paragraph == Trim(cParas[cIdx])
       IN  /\ paragraph # <<>>
           /\ Fits(cCurrent, paragraph, cMax)
           /\ cCurrent' = IF cCurrent # <<>> THEN cCurrent \o Sep \o paragraph
                          ELSE paragraph
    /\ cIdx' = cIdx + 1
    /\ UNCHANGED <<cText, cMax, cParas, cChunks, cStart, cPc>>
    /\ UNCHANGED <<scoreVars, apiVars, restVars>>

\* the paragraph does not fit: flush current, then keep the paragraph as the
\* new buffer or enter the hard-split loop
ChunkFlush ==
    /\ cPc = "loop"
    /\ cIdx <= Len(cParas)
    /\ LET paragraph == Trim(cParas[cIdx])
       IN  /\ paragraph # <<>>
           /\ ~Fits(cCurrent, paragraph, cMax)
           /\ cChunks' = IF cCurrent # <<>> THEN Append(cChunks, cCurrent)
                         ELSE cChunks
           /\ IF Len(paragraph) <= cMax
              THEN /\ cCurrent' = paragraph
                   /\ cIdx' = cIdx + 1
                   /\ UNCHANGED <<cStart, cPc>>
              ELSE /\ cStart' = 0
                   /\ cPc' = "split"
                   /\ UNCHANGED <<cCurrent, cIdx>>
    /\ UNCHANGED <<cText, cMax, cParas>>
    /\ UNCHANGED <<scoreVars, apiVars, restVars>>

\* a loop body that leaves start where it is
ChunkSliceNoAdvance ==
    /\ cPc = "split"
    /\ cStart < Len(Trim(cParas[cIdx]))
    /\ UNCHANGED <<cText, cMax, cParas, cIdx, cCurrent, cChunks, cStart, cPc>>
    /\ UNCHANGED <<scoreVars, apiVars, restVars>>

\* while (start < paragraph.length) { chunks.push(slice); start += maxChars }
ChunkSlice ==
    /\ cPc = "split"
    /\ LET paragraph == Trim(cParas[cIdx])
       IN  /\ cStart < Len(paragraph)
           /\ cChunks' = Append(cChunks, Slice(paragraph, cStart, cStart + cMax))
           /\ cStart' = cStart + cMax
    /\ UNCHANGED <<cText, cMax, cParas, cIdx, cCurrent, cPc>>
    /\ UNCHANGED <<scoreVars, apiVars, restVars>>

\* the hard-split loop ends: current = ''
ChunkSplitEnd ==
    /\ cPc = "split"
    /\ cStart >= Len(Trim(cParas[cIdx]))
    /\ cCurrent' = <<>>
    /\ cIdx' = cIdx + 1
    /\ cPc' = "loop"
    /\ UNCHANGED <<cText, cMax, cParas, cChunks, cStart>>
    /\ UNCHANGED <<scoreVars, apiVars, restVars>>

\* if (current) chunks.push(current); return chunks
ChunkReturn ==
    /\ cPc = "loop"
    /\ cIdx > Len(cParas)
    /\ cChunks' = IF cCurrent # <<>> THEN Append(cChunks, cCurrent) ELSE cChunks
    /\ cPc' = "done"
    /\ UNCHANGED <<cText, cMax, cParas, cIdx, cCurrent, cStart>>
    /\ UNCHANGED <<scoreVars, apiVars, restVars>>

ChunkNext ==
    \/ ChunkReturnEmpty
    \/ ChunkSplit
    \/ ChunkSkip
    \/ ChunkAccumulate
    \/ ChunkFlush
    \/ ChunkSlice
    \/ ChunkSplitEnd
    \/ ChunkReturn

SpecChunk == ChunkInit /\ [][ChunkNext]_vars

MaxFairTextLen == 7

\* the calls whose termination is checked: texts of long paragraphs
ChunkFairInit ==
    /\ ScoreIdle
    /\ ApiIdle
    /\ RestIdle
    /\ cText \in StringsUpTo(ParaAlphabet, MaxFairTextLen) \cup {Undefined}
    /\ cMax \in 1..MaxMaxChars
    /\ cParas = <<>>
    /\ cIdx = 0
    /\ cCurrent = <<>>
    /\ cChunks = <<>>
    /\ cStart = 0
    /\ cPc = "call"

\* a call of chunkText runs on until it returns: nothing else runs in between
SpecChunkFair == ChunkFairInit /\ [][ChunkNext]_vars /\ WF_vars(ChunkNext)

-----------------------------------------------------------------------------
(* tokenize and scoreChunk *)

UpperCase == <<"A", "B", "C", "D", "E", "F", "G", "H", "I", "J", "K", "L", "M",
               "N", "O", "P", "Q", "R", "S", "T", "U", "V", "W", "X", "Y", "Z">>
LowerCase == <<"a", "b", "c", "d", "e", "f", "g", "h", "i", "j", "k", "l", "m",
               "n", "o", "p", "q", "r", "s", "t", "u", "v", "w", "x", "y", "z">>
Digits == {"0", "1", "2", "3", "4", "5", "6", "7", "8", "9"}

UpperLetters == {UpperCase[k] : k \in 1..26}
LowerLetters == {LowerCase[k] : k \in 1..26}
LowerOf == [c \in UpperLetters |-> LowerCase[CHOOSE k \in 1..26 : UpperCase[k] = c]]

\* String.prototype.toLowerCase
ToLowerCase(s) ==
    [i \in 1..Len(s) |-> IF s[i] \in UpperLetters THEN LowerOf[s[i]] ELSE s[i]]

\* the characters [a-z0-9\s] that replace(/[^a-z0-9\s]/g, ' ') keeps
IsKept(c) == c \in LowerLetters \/ c \in Digits \/ IsSpace(c)

\* a replace that leaves every character in place
ReplaceSymbolsNone(s) == s

\* .replace(/[^a-z0-9\s]/g, ' ')
ReplaceSymbols(s) == [i \in 1..Len(s) |-> IF IsKept(s[i]) THEN s[i] ELSE SP]

\* Index of the first whitespace character of s at or after index p, or 0
SpaceStart(s, p) ==
    IF \A i \in p..Len(s) : ~IsSpace(s[i]) THEN 0
    ELSE CHOOSE i \in p..Len(s) :
             IsSpace(s[i]) /\ \A j \in p..(i - 1) : ~IsSpace(s[j])

\* Index of the last character of the whitespace run that starts at index q
SpaceEnd(s, q) ==
    CHOOSE j \in q..Len(s) :
        /\ \A k \in q..j : IsSpace(s[k])
        /\ j = Len(s) \/ ~IsSpace(s[j + 1])

RECURSIVE SplitSpacesFrom(_, _)
SplitSpacesFrom(s, p) ==
    LET q == SpaceStart(s, p)
    IN  IF q = 0 THEN <<SubSeq(s, p, Len(s))>>
        ELSE <<SubSeq(s, p, q - 1)>> \o SplitSpacesFrom(s, SpaceEnd(s, q) + 1)

\* .split(/\s+/)
SplitSpaces(s) == SplitSpacesFrom(s, 1)

\* .filter(Boolean) on an array of strings
FilterBoolean(strs) == SelectSeq(strs, LAMBDA t : t # <<>>)

\* tokenize(text)
tokenize(text) ==
    LET str == IF text = Undefined \/ text = <<>> THEN <<>> ELSE text
    IN  FilterBoolean(SplitSpaces(ReplaceSymbols(ToLowerCase(str))))

\* new Set(tokens)
SetOf(seq) == {seq[i] : i \in 1..Len(seq)}

RECURSIVE ScoreLoop(_, _, _, _)
\* for (const t of cTokens) if (qTokens.has(t)) score += 1
ScoreLoop(qTokens, cTokens, i, score) ==
    IF i > Len(cTokens) THEN score
    ELSE ScoreLoop(qTokens, cTokens, i + 1,
                   IF cTokens[i] \in qTokens THEN score + 1 ELSE score)

\* a scorer that counts each distinct chunk token once
scoreChunkDistinct(question, chunkTextValue) ==
    Cardinality(SetOf(tokenize(question)) \cap SetOf(tokenize(chunkTextValue)))

\* a scorer that walks the question's tokens and looks them up in the chunk
scoreChunkSwapped(question, chunkTextValue) ==
    ScoreLoop(SetOf(tokenize(chunkTextValue)), tokenize(question), 1, 0)

\* scoreChunk(question, chunkTextValue)
scoreChunk(question, chunkTextValue) ==
    ScoreLoop(SetOf(tokenize(question)), tokenize(chunkTextValue), 1, 0)

ScoreAlphabet == {"a", "b", "A", SP}

Cat == Chars("cat")
CatCatCat == Cat \o <<SP>> \o Cat \o <<SP>> \o Cat

\* the pairs (question, chunk text) the examples of the scorer use
ScoreExamples == {<<Cat, CatCatCat>>, <<<<>>, CatCatCat>>, <<Undefined, Cat>>}

ScoreInit ==
    /\ ChunkIdle
    /\ ApiIdle
    /\ RestIdle
    /\ \E pair \in (StringsUpTo(ScoreAlphabet, MaxQuestionLen)
                        \X StringsUpTo(ScoreAlphabet, MaxChunkLen)) \cup ScoreExamples :
           /\ sQuestion = pair[1]
           /\ sChunk = pair[2]
    /\ sScore = 0
    /\ sPc = "call"

\* a call of scoreChunk
ScoreCall ==
    /\ sPc = "call"
    /\ sScore' = scoreChunk(sQuestion, sChunk)
    /\ sPc' = "done"
    /\ UNCHANGED <<sQuestion, sChunk, chunkVars, apiVars, restVars>>

ScoreNext == ScoreCall

SpecScore == ScoreInit /\ [][ScoreNext]_vars

\* C5: the score is the number of positions of the chunk's token sequence
\* whose token is a query token, duplicates counted; it is never negative,
\* 0 when the query has no tokens, and 3 for "cat cat cat" against "cat".
C5_ScoreCountsOccurrences ==
    sPc = "done" =>
        LET cTokens == tokenize(sChunk)
            qTokens == SetOf(tokenize(sQuestion))
        IN  /\ sScore = Cardinality({i \in 1..Len(cTokens) : cTokens[i] \in qTokens})
            /\ sScore >= 0
            /\ qTokens = {} => sScore = 0
            /\ (sQuestion = Cat /\ sChunk = CatCatCat) => sScore = 3

\* "cat cat cat" has been scored against "cat"
C5_Witness ==
    sPc = "done" /\ sQuestion = Cat /\ sChunk = CatCatCat /\ sScore = 3

\* C6 as stated: the score is the size of the intersection of the query
\* token set and the chunk token set.
C6_ScoreIsIntersectionSize ==
    sPc = "done" =>
        sScore = Cardinality(SetOf(tokenize(sQuestion)) \cap SetOf(tokenize(sChunk)))

\* C6 as amended: the score is at least the size of the intersection of the
\* query token set and the chunk token set, and equal to it exactly when no
\* query token occurs more than once in the chunk.
C6_ScoreAtLeastIntersection ==
    sPc = "done" =>
        LET cTokens == tokenize(sChunk)
            qTokens == SetOf(tokenize(sQuestion))
            common == qTokens \cap SetOf(cTokens)
            repeated == \E i, j \in 1..Len(cTokens) :
                            i # j /\ cTokens[i] = cTokens[j] /\ cTokens[i] \in qTokens
        IN  /\ sScore >= Cardinality(common)
            /\ (sScore = Cardinality(common)) <=> ~repeated

\* a chunk with two distinct query tokens, one of them twice, has been scored
C6_Witness ==
    /\ sPc = "done"
    /\ Cardinality(SetOf(tokenize(sQuestion)) \cap SetOf(tokenize(sChunk))) = 2
    /\ sScore = 3

-----------------------------------------------------------------------------
(* Retrieval of the chat route *)

DefaultMaxChars == 800
TopK == 5

\* note.title || 'Untitled Note'
NoteTitle(note) ==
    IF Truthy(note.title) THEN note.title.v ELSE Chars("Untitled Note")

\* `${note.title || 'Untitled Note'}\n\n${note.content || ''}`
BaseText(note) ==
    NoteTitle(note) \o Sep \o (IF Truthy(note.content) THEN note.content.v ELSE <<>>)

\* the chunks pushed for one note
NoteChunks(note) ==
    LET noteChunks == chunkText(BaseText(note), DefaultMaxChars)
    IN  [idx \in 1..Len(noteChunks) |->
            [noteTitle |-> NoteTitle(note), chunkIndex |-> idx, text |-> noteChunks[idx]]]

RECURSIVE AllChunks(_)
\* for (const note of notes) noteChunks.forEach(... chunks.push ...)
AllChunks(rows) ==
    IF rows = <<>> THEN <<>>
    ELSE NoteChunks(Head(rows)) \o AllChunks(Tail(rows))

\* chunks.map(chunk => ({ ...chunk, score: scoreChunk(message, chunk.text) }))
ScoreChunks(chunks, message) ==
    [i \in 1..Len(chunks) |->
        [noteTitle |-> chunks[i].noteTitle, chunkIndex |-> chunks[i].chunkIndex,
         text |-> chunks[i].text, score |-> scoreChunk(message, chunks[i].text)]]

CompareAscending(a, b) == a.score - b.score

\* the comparator (a, b) => b.score - a.score
Compare(a, b) == b.score - a.score

InsertBeforeEqual(sorted, x) ==
    LET k == Cardinality({i \in 1..Len(sorted) : Compare(sorted[i], x) < 0})
    IN  SubSeq(sorted, 1, k) \o <<x>> \o SubSeq(sorted, k + 1, Len(sorted))

\* Array.prototype.sort is stable: an element goes after the elements that
\* the comparator does not order after it
InsertSorted(sorted, x) ==
    LET k == Cardinality({i \in 1..Len(sorted) : Compare(sorted[i], x) <= 0})
    IN  SubSeq(sorted, 1, k) \o <<x>> \o SubSeq(sorted, k + 1, Len(sorted))

RECURSIVE SortFrom(_, _, _)
SortFrom(arr, i, sorted) ==
    IF i > Len(arr) THEN sorted
    ELSE SortFrom(arr, i + 1, InsertSorted(sorted, arr[i]))

\* scoredChunks.sort((a, b) => b.score - a.score)
SortChunks(arr) == SortFrom(arr, 1, <<>>)

\* topChunks of the chat route for the scored chunks
TopChunks(scored) ==
    IF Len(scored) > 0 THEN Slice(SortChunks(scored), 0, TopK) ELSE <<>>

\* [Citation: ${chunk.noteTitle}, Chunk ${chunk.chunkIndex}]
CitationHeader(chunk) ==
    Chars("[Citation: ") \o chunk.noteTitle \o Chars(", Chunk ")
        \o NatToString(chunk.chunkIndex) \o Chars("]")

\* a block that carries only the head of the chunk's text
ContextBlockCut(chunk) ==
    CitationHeader(chunk) \o <<NL>> \o Slice(chunk.text, 0, 100)

\* the template literal mapped over topChunks
ContextBlock(chunk) == CitationHeader(chunk) \o <<NL>> \o chunk.text

ContextSeparator == Chars("\n\n---\n\n")

RECURSIVE JoinWith(_, _)
\* Array.prototype.join(separator) on strings
JoinWith(strings, separator) ==
    IF strings = <<>> THEN <<>>
    ELSE IF Len(strings) = 1 THEN strings[1]
    ELSE strings[1] \o separator \o JoinWith(Tail(strings), separator)

\* contextText of the chat route
ContextText(top) ==
    JoinWith([i \in 1..Len(top) |-> ContextBlock(top[i])], ContextSeparator)

\* a query that selects by folder only
FetchNotesAnyUser(userId, folderId) ==
    SelectSeq(notes, LAMBDA row : row.folder_id = folderId.v)

\* a WHERE clause that leaves the user out
FetchNotesFromAnyUser(table, userId, folderId) ==
    SelectSeq(table, LAMBDA row : row.folder_id = folderId.v)

\* SELECT ... FROM notes WHERE user_id = $1 AND folder_id = $2, in table order
FetchNotesFrom(table, userId, folderId) ==
    SelectSeq(table, LAMBDA row : row.user_id = userId /\ row.folder_id = folderId.v)

\* the query against the notes table of the database
FetchNotes(userId, folderId) == FetchNotesFrom(notes, userId, folderId)

\* Note Title: ${note.title || 'Untitled'}\nContent:\n${note.content || ''}
StudyBlock(note) ==
    Chars("Note Title: ")
        \o (IF Truthy(note.title) THEN note.title.v ELSE Chars("Untitled"))
        \o Chars("\nContent:\n")
        \o (IF Truthy(note.content) THEN note.content.v ELSE <<>>)

\* contextText of the study route
StudyContextText(rows) ==
    JoinWith([i \in 1..Len(rows) |-> StudyBlock(rows[i])], ContextSeparator)

-----------------------------------------------------------------------------
(* Post-processing of the model output in the chat route *)

Json(status, body) == [status |-> status, body |-> body]
ErrorBody(msg) == Obj([error |-> Str(Chars(msg))])
ReplyBody(value) == Obj([reply |-> value])

ChatFailure == Json(500, ErrorBody("Failed to process AI request"))
FallbackReply == Chars("Failed to generate response correctly.")
\* the reply sent when no client is configured; 96 is the code of the
\* backquote, which a string of this language cannot hold
BackQuote == "chr96"
CannedReply ==
    Chars("I cannot answer right now. Please add your ") \o <<BackQuote>>
        \o Chars("OPENAI_API_KEY") \o <<BackQuote>> \o Chars(" to the ")
        \o <<BackQuote>> \o Chars("backend/.env") \o <<BackQuote>>
        \o Chars(" file and restart the server.")
RefusalPrefix == Chars("Not found in your notes for")
EvidenceHeader == <<NL, NL>> \o Chars("**Supporting Evidence:**") \o <<NL>>

\* JSON.parse(completion.choices[0].message.content): throws a TypeError when
\* choices[0] or message is missing, a SyntaxError when the content is not
\* JSON.  The content is represented by what JSON.parse makes of it.
JsonParseContent(c) ==
    IF c.kind = "content" /\ c.parses
    THEN [threw |-> FALSE, value |-> c.value]
    ELSE [threw |-> TRUE, value |-> Undef]

ParseModelOutputUncaught(c) == JsonParseContent(c)

\* try { aiResponse = JSON.parse(...) } catch (e) { aiResponse = null }
ParseModelOutput(c) ==
    LET r == JsonParseContent(c)
    IN  [threw |-> FALSE, value |-> IF r.threw THEN Null ELSE r.value]

IsRefusalAtStart(spoken) ==
    IF spoken.t = "string"
    THEN /\ Len(spoken.v) >= Len(RefusalPrefix)
         /\ SubSeq(spoken.v, 1, Len(RefusalPrefix)) = RefusalPrefix
    ELSE spoken.v # <<>> /\ spoken.v[1] = Str(RefusalPrefix)

\* spoken_answer.includes(`Not found in your notes for`), for a value with
\* a method includes
IsRefusal(spoken) == Includes(spoken, RefusalPrefix)

\* `- [${cit.id}] "${cit.evidence_snippet}"\n`
EvidenceLine(cit) ==
    Chars("- [") \o JsToString(Get(cit, "id")) \o Chars("] \"")
        \o JsToString(Get(cit, "evidence_snippet")) \o <<"\"", NL>>

RECURSIVE EvidenceLines(_)
\* aiResponse.citations.forEach((cit) => { finalReply += ... })
EvidenceLines(cits) ==
    IF cits = <<>> THEN <<>>
    ELSE EvidenceLine(Head(cits)) \o EvidenceLines(Tail(cits))

\* aiResponse.citations && aiResponse.citations.length > 0
HasCitations(cits) ==
    /\ Truthy(cits)
    /\ Get(cits, "length").t = "number"
    /\ Get(cits, "length").v > 0

FinalReplyWithConfidence(spoken, cits, confidence) ==
    (IF HasCitations(cits)
     THEN JsToString(spoken) \o EvidenceHeader \o EvidenceLines(cits.v)
     ELSE spoken.v) \o Chars("Confidence: ") \o JsToString(confidence)

\* a block that stops after the first citation
FinalReplyFirstCitation(spoken, cits, confidence) ==
    IF HasCitations(cits)
    THEN JsToString(spoken) \o EvidenceHeader \o EvidenceLine(cits.v[1])
    ELSE spoken.v

\* finalReply after the citations block, for finalReply = spoken
FinalReply(spoken, cits, confidence) ==
    IF HasCitations(cits)
    THEN JsToString(spoken) \o EvidenceHeader \o EvidenceLines(cits.v)
    ELSE spoken.v

\* the chat route from the refusal test on, for a truthy aiResponse
BuildReply(aiResponse) ==
    LET spoken == Get(aiResponse, "spoken_answer")
        cits   == Get(aiResponse, "citations")
        start  == IF Truthy(spoken) THEN spoken ELSE Str(<<>>)
    IN  IF Truthy(spoken) /\ ~HasIncludes(spoken)
        THEN ChatFailure            \* includes is not a function
        ELSE IF Truthy(spoken) /\ IsRefusal(spoken)
        THEN Json(200, ReplyBody(spoken))
        ELSE IF HasCitations(cits) /\ cits.t # "array"
        THEN ChatFailure            \* forEach is not a function
        ELSE IF HasCitations(cits) /\ \E i \in 1..Len(cits.v) : ~CanRead(cits.v[i])
        THEN ChatFailure            \* cannot read id of null
        ELSE IF ~HasCitations(cits) /\ start.t # "string"
        THEN ChatFailure            \* trim is not a function
        ELSE Json(200, ReplyBody(Str(Trim(
                 FinalReply(start, cits, Get(aiResponse, "confidence"))))))

\* the chat route after the provider call has resolved
ChatPostProcess(c) ==
    LET r == ParseModelOutput(c)
    IN  IF r.threw THEN ChatFailure
        ELSE IF ~Truthy(r.value)
        THEN Json(200, ReplyBody(Str(FallbackReply)))
        ELSE BuildReply(r.value)

-----------------------------------------------------------------------------
(* The chat, study and grade routes *)

Users == {"u1", "u2"}
Folder1 == Chars("f1")
Folder2 == Chars("f2")

Note(user, folder, title, content) ==
    [user_id |-> user, folder_id |-> folder, title |-> title, content |-> content]

\* a note of three chunks: its title with a first paragraph, then a paragraph
\* of 801 characters that is hard-split
LongNote ==
    Note("u1", Folder1, Str(Chars("dog")),
         Str(Cat \o Sep \o [i \in 1..(DefaultMaxChars + 1) |-> "x"]))

\* the rows a table of notes is made of
NoteRows ==
    { Note("u1", Folder1, Str(Cat), Str(Chars("cat cat"))),
      Note("u1", Folder1, Null, Str(Chars("dog cat"))),
      Note("u1", Folder1, Str(<<SP>>), Null),
      Note("u2", Folder1, Str(Chars("dog")), Str(Chars("dog"))),
      Note("u1", Folder2, Str(Cat), Str(Chars("bird"))),
      LongNote }

RECURSIVE SeqsUpTo(_, _)
\* the sequences over set of length at most n
SeqsUpTo(set, n) ==
    IF n = 0 THEN {<<>>}
    ELSE LET shorter == SeqsUpTo(set, n - 1)
         IN  shorter \cup {Append(q, x) : q \in shorter, x \in set}

\* tables with more than TopK chunks in one folder
LargeTables ==
    LET catNote == Note("u1", Folder1, Str(Cat), Str(Chars("cat cat")))
        dogNote == Note("u1", Folder1, Null, Str(Chars("dog cat")))
        other   == Note("u2", Folder1, Str(Chars("dog")), Str(Chars("dog")))
    IN  { <<dogNote, catNote, LongNote, other, dogNote, LongNote>>,
          <<LongNote, dogNote, dogNote, catNote, dogNote, dogNote, catNote>> }

\* a table whose folder holds two notes of one title and two untitled notes
TwinTables ==
    { << Note("u1", Folder1, Str(Cat), Str(Chars("cat cat"))),
         Note("u1", Folder1, Str(Cat), Str(Chars("cat nap"))),
         Note("u1", Folder1, Null, Str(Chars("dog cat"))),
         Note("u1", Folder1, Null, Str(Chars("cat"))) >> }

Tables == SeqsUpTo(NoteRows, MaxNotes) \cup LargeTables \cup TwinTables

Body(message, folderId, folderName, question, userAnswer, modelAnswer) ==
    [message |-> message, folderId |-> folderId, folderName |-> folderName,
     question |-> question, userAnswer |-> userAnswer, modelAnswer |-> modelAnswer]

FolderIdValues == {Undef, Str(Folder1), Str(Folder2)}
FolderNameValues == {Undef, Str(Chars("Bio"))}
MessageValues == {Undef, Str(<<>>), Str(Cat), Str(Chars("dog cat"))}
AnswerValues == {Undef, Str(Chars("a"))}

ChatBodies ==
    {Body(m, f, n, Undef, Undef, Undef) :
        m \in MessageValues, f \in FolderIdValues, n \in FolderNameValues}
StudyBodies ==
    {Body(Undef, f, n, Undef, Undef, Undef) :
        f \in FolderIdValues, n \in FolderNameValues}
GradeBodies ==
    {Body(Undef, Undef, Undef, q, u, m) :
        q \in AnswerValues, u \in AnswerValues, m \in AnswerValues}

ModelOutput(spoken, cits, confidence) ==
    Obj([spoken_answer |-> spoken, citations |-> cits, confidence |-> confidence])
Citation(id, snippet) == Obj([id |-> id, evidence_snippet |-> snippet])

SpokenAnswers ==
    { Undef,
      Str(<<>>),
      Str(Chars("Cats purr. ")),
      Str(<<NL>> \o Chars(" Cats.")),
      Str(RefusalPrefix \o Chars(" Bio")),
      Str(Chars("Sorry. ") \o RefusalPrefix \o Chars(" Subject") \o <<NL>>),
      Num(5),
      Arr(<<Str(RefusalPrefix)>>),
      Arr(<<Str(Chars("Cats")), Str(Chars("purr"))>>) }

CitationValues ==
    { Undef,
      Arr(<<>>),
      Arr(<<Citation(Str(Chars("1")), Str(Chars("cats purr")))>>),
      Arr(<<Citation(Num(1), Str(Chars("cats purr"))), Citation(Num(12), Undef)>>),
      Arr(<<Citation(Num(1), Str(Chars("cats purr"))), Null>>),
      Str(Chars("[1]")),
      Num(3) }

ConfidenceValues == {Undef, Str(Chars("High"))}

\* objects of the shape the grade prompt asks for, and near misses
GradeOutputs ==
    { Obj([score |-> Num(7), feedback |-> Str(Chars("Good."))]),
      Obj([score |-> Num(0), feedback |-> Str(<<>>)]),
      Obj([score |-> Num(11), feedback |-> Str(Chars("Good."))]),
      Obj([score |-> Num(0 - 1), feedback |-> Str(Chars("Bad."))]),
      Obj([score |-> Str(Chars("8")), feedback |-> Str(Chars("Good."))]),
      Obj([score |-> Num(7)]) }

\* the values the content of a completion can denote
ModelOutputs ==
    {ModelOutput(a, c, k) :
        a \in SpokenAnswers, c \in CitationValues, k \in ConfidenceValues}
    \cup GradeOutputs
    \cup {Null, Num(0), Num(7), Str(Chars("hi")), Bool(TRUE), Arr(<<>>)}

\* the outcomes of openai.chat.completions.create: the call rejects, or
\* resolves without choices[0].message, or with a content that is not JSON,
\* or with a content that denotes a value
Completions ==
    { [kind |-> "rejected", parses |-> FALSE, value |-> Undef],
      [kind |-> "malformed", parses |-> FALSE, value |-> Undef],
      [kind |-> "content", parses |-> FALSE, value |-> Undef] }
    \cup {[kind |-> "content", parses |-> TRUE, value |-> v] : v \in ModelOutputs}

ApiInit ==
    /\ ChunkIdle
    /\ ScoreIdle
    /\ RestIdle
    /\ openai \in BOOLEAN
    /\ notes \in Tables
    /\ req = NoRequest
    /\ hPc = "idle"
    /\ hNotes = NotFetched
    /\ scoredChunks = <<>>
    /\ topChunks = <<>>
    /\ completion = NoCompletion
    /\ res = NoResponse
    /\ fetches = 0
    /\ providerCalls = 0

\* app.post('/api/chat'): validation, then the note query is issued
ChatRequest ==
    /\ hPc = "idle"
    /\ \E u \in Users, body \in ChatBodies :
        /\ req' = [route |-> "chat", userId |-> u, body |-> body]
        /\ IF ~Truthy(body.message) \/ ~Truthy(body.folderId)
           THEN /\ res' = Json(400, ErrorBody("message and folderId are required"))
                /\ hPc' = "done"
                /\ UNCHANGED fetches
           ELSE /\ hPc' = "fetch"
                /\ fetches' = fetches + 1
                /\ UNCHANGED res
    /\ UNCHANGED <<openai, notes, scoredChunks, topChunks, completion, providerCalls>>
    /\ UNCHANGED <<chunkVars, scoreVars, restVars, hNotes>>

\* a chat route that calls the provider without testing the client
ChatFetchedUntested ==
    /\ hPc = "fetch"
    /\ req.route = "chat"
    /\ LET rows   == FetchNotes(req.userId, req.body.folderId)
           scored == ScoreChunks(AllChunks(rows), req.body.message.v)
       IN  /\ hNotes' = rows
           /\ scoredChunks' = scored
           /\ topChunks' = TopChunks(scored)
           /\ contextText' = ContextText(TopChunks(scored))
    /\ hPc' = "provider"
    /\ providerCalls' = providerCalls + 1
    /\ UNCHANGED <<openai, notes, req, completion, fetches, res>>
    /\ UNCHANGED <<chunkVars, scoreVars, folderVars, confVars, histVars, tokVars>>

\* app.post('/api/chat'): the note query resolved; retrieval, then the canned
\* reply or the provider call
ChatFetched ==
    /\ hPc = "fetch"
    /\ req.route = "chat"
    /\ LET rows   == FetchNotes(req.userId, req.body.folderId)
           scored == ScoreChunks(AllChunks(rows), req.body.message.v)
       IN  /\ hNotes' = rows
           /\ scoredChunks' = scored
           /\ topChunks' = TopChunks(scored)
           /\ contextText' = ContextText(TopChunks(scored))
    /\ IF ~openai
       THEN /\ res' = Json(200, ReplyBody(Str(CannedReply)))
            /\ hPc' = "done"
            /\ UNCHANGED providerCalls
       ELSE /\ hPc' = "provider"
            /\ providerCalls' = providerCalls + 1
            /\ UNCHANGED res
    /\ UNCHANGED <<openai, notes, req, completion, fetches>>
    /\ UNCHANGED <<chunkVars, scoreVars, folderVars, confVars, histVars, tokVars>>

\* app.post('/api/chat'): the provider call settled
ChatCompleted ==
    /\ hPc = "provider"
    /\ req.route = "chat"
    /\ \E c \in Completions :
        /\ completion' = c
        /\ res' = IF c.kind = "rejected" THEN ChatFailure ELSE ChatPostProcess(c)
    /\ hPc' = "done"
    /\ UNCHANGED <<openai, notes, req, scoredChunks, topChunks, fetches, providerCalls>>
    /\ UNCHANGED <<chunkVars, scoreVars, restVars, hNotes>>

StudyFailure == Json(500, ErrorBody("Failed to generate study mode from notes"))
GradeFailure == Json(500, ErrorBody("Failed to grade answer"))
Unavailable == Json(503, ErrorBody("OpenAI API key not configured"))

\* folderName || "Subject"
Subject(body) ==
    IF Truthy(body.folderName) THEN body.folderName ELSE Str(Chars("Subject"))

\* the study set sent for a folder without notes
EmptyStudySet(body) ==
    Obj([subject |-> Subject(body), mcqs |-> Arr(<<>>),
         short_answer_questions |-> Arr(<<>>), references |-> Arr(<<>>),
         message |-> Str(Chars("No notes found to generate study materials."))])

\* const aiResponse = JSON.parse(...); res.json(aiResponse), inside the
\* route's try block
SendParsed(c, failure) ==
    LET r == JsonParseContent(c)
    IN  IF r.threw THEN failure ELSE Json(200, r.value)

\* app.post('/api/study'): validation and the provider check, then the note
\* query is issued
StudyRequest ==
    /\ hPc = "idle"
    /\ \E u \in Users, body \in StudyBodies :
        /\ req' = [route |-> "study", userId |-> u, body |-> body]
        /\ IF ~Truthy(body.folderId)
           THEN /\ res' = Json(400, ErrorBody("folderId is required"))
                /\ hPc' = "done"
                /\ UNCHANGED fetches
           ELSE IF ~openai
           THEN /\ res' = Unavailable
                /\ hPc' = "done"
                /\ UNCHANGED fetches
           ELSE /\ hPc' = "fetch"
                /\ fetches' = fetches + 1
                /\ UNCHANGED res
    /\ UNCHANGED <<openai, notes, scoredChunks, topChunks, completion, providerCalls>>
    /\ UNCHANGED <<chunkVars, scoreVars, restVars, hNotes>>

\* app.post('/api/study'): the note query resolved; the empty study set or
\* the provider call
StudyFetched ==
    /\ hPc = "fetch"
    /\ req.route = "study"
    /\ hNotes' = FetchNotes(req.userId, req.body.folderId)
    /\ IF hNotes' = <<>>
       THEN /\ res' = Json(200, EmptyStudySet(req.body))
            /\ hPc' = "done"
            /\ UNCHANGED <<providerCalls, contextText>>
       ELSE /\ contextText' = StudyContextText(hNotes')
            /\ hPc' = "provider"
            /\ providerCalls' = providerCalls + 1
            /\ UNCHANGED res
    /\ UNCHANGED <<openai, notes, req, scoredChunks, topChunks, completion, fetches>>
    /\ UNCHANGED <<chunkVars, scoreVars, folderVars, confVars, histVars, tokVars>>

\* app.post('/api/study'): the provider call settled
StudyCompleted ==
    /\ hPc = "provider"
    /\ req.route = "study"
    /\ \E c \in Completions :
        /\ completion' = c
        /\ res' = IF c.kind = "rejected" THEN StudyFailure
                  ELSE SendParsed(c, StudyFailure)
    /\ hPc' = "done"
    /\ UNCHANGED <<openai, notes, req, scoredChunks, topChunks, fetches, providerCalls>>
    /\ UNCHANGED <<chunkVars, scoreVars, restVars, hNotes>>

\* pool.query rejects: the catch block of the route answers
FetchRejected ==
    /\ hPc = "fetch"
    /\ res' = IF req.route = "chat" THEN ChatFailure ELSE StudyFailure
    /\ hPc' = "done"
    /\ UNCHANGED <<openai, notes, req, scoredChunks, topChunks, completion,
                   fetches, providerCalls>>
    /\ UNCHANGED <<chunkVars, scoreVars, restVars, hNotes>>

\* a grade route whose validation leaves out userAnswer
GradeRequestNoUserAnswer ==
    /\ hPc = "idle"
    /\ \E u \in Users, body \in GradeBodies :
        /\ req' = [route |-> "grade", userId |-> u, body |-> body]
        /\ IF ~Truthy(body.question) \/ ~Truthy(body.modelAnswer)
           THEN /\ res' = Json(400, ErrorBody("Missing required fields"))
                /\ hPc' = "done"
                /\ UNCHANGED providerCalls
           ELSE IF ~openai
           THEN /\ res' = Unavailable
                /\ hPc' = "done"
                /\ UNCHANGED providerCalls
           ELSE /\ hPc' = "provider"
                /\ providerCalls' = providerCalls + 1
                /\ UNCHANGED res
    /\ UNCHANGED <<openai, notes, scoredChunks, topChunks, completion, fetches>>
    /\ UNCHANGED <<chunkVars, scoreVars, restVars, hNotes>>

\* app.post('/api/grade'): validation and the provider check, then the
\* provider call is issued
GradeRequest ==
    /\ hPc = "idle"
    /\ \E u \in Users, body \in GradeBodies :
        /\ req' = [route |-> "grade", userId |-> u, body |-> body]
        /\ IF ~Truthy(body.question) \/ ~Truthy(body.userAnswer)
                \/ ~Truthy(body.modelAnswer)
           THEN /\ res' = Json(400, ErrorBody("Missing required fields"))
                /\ hPc' = "done"
                /\ UNCHANGED providerCalls
           ELSE IF ~openai
           THEN /\ res' = Unavailable
                /\ hPc' = "done"
                /\ UNCHANGED providerCalls
           ELSE /\ hPc' = "provider"
                /\ providerCalls' = providerCalls + 1
                /\ UNCHANGED res
    /\ UNCHANGED <<openai, notes, scoredChunks, topChunks, completion, fetches>>
    /\ UNCHANGED <<chunkVars, scoreVars, restVars, hNotes>>

\* app.post('/api/grade'): the provider call settled
GradeCompleted ==
    /\ hPc = "provider"
    /\ req.route = "grade"
    /\ \E c \in Completions :
        /\ completion' = c
        /\ res' = IF c.kind = "rejected" THEN GradeFailure
                  ELSE SendParsed(c, GradeFailure)
    /\ hPc' = "done"
    /\ UNCHANGED <<openai, notes, req, scoredChunks, topChunks, fetches, providerCalls>>
    /\ UNCHANGED <<chunkVars, scoreVars, restVars, hNotes>>

ApiNext ==
    \/ ChatRequest
    \/ ChatFetched
    \/ ChatCompleted
    \/ StudyRequest
    \/ StudyFetched
    \/ StudyCompleted
    \/ FetchRejected
    \/ GradeRequest
    \/ GradeCompleted

SpecApi == ApiInit /\ [][ApiNext]_vars

-----------------------------------------------------------------------------
(* Properties of the retriever *)

\* the retrieval of the chat route has run
Retrieved == req.route = "chat" /\ hNotes # NotFetched

\* C3: the chat retriever returns exactly min(5, n) of the n chunks, ordered
\* non-increasing by score, and no chunk left out has a strictly higher
\* score than a returned one; with no chunks it returns the empty sequence
\* and the request goes on to the canned reply or the provider call.
C3_TopFiveByScore ==
    Retrieved =>
        LET n == Len(scoredChunks)
            k == Len(topChunks)
        IN  /\ k = IF n < 5 THEN n ELSE 5
            /\ \A i \in 1..k : \E j \in 1..n : topChunks[i] = scoredChunks[j]
            /\ \A i \in 1..(k - 1) : topChunks[i].score >= topChunks[i + 1].score
            /\ \A i \in 1..k :
                   Cardinality({j \in 1..n : scoredChunks[j].score > topChunks[i].score})
                       = Cardinality({j \in 1..k : topChunks[j].score > topChunks[i].score})
            /\ n = 0 =>
                   /\ topChunks = <<>>
                   /\ completion = NoCompletion =>
                          hPc = "provider" \/ (hPc = "done" /\ res.status = 200)

\* a chat request over more than five chunks of differing scores has been
\* answered
C3_Witness ==
    /\ Retrieved
    /\ Len(scoredChunks) > 5
    /\ Len(topChunks) = 5
    /\ topChunks[1].score > topChunks[5].score
    /\ \E j \in 1..Len(scoredChunks) : scoredChunks[j].score < topChunks[5].score
    /\ hPc = "done"
    /\ res.status = 200

\* the place of scoredChunks[i] in a stable sort by descending score
Rank(i) ==
    1 + Cardinality({j \in 1..Len(scoredChunks) :
                        scoredChunks[j].score > scoredChunks[i].score})
      + Cardinality({j \in 1..(i - 1) :
                        scoredChunks[j].score = scoredChunks[i].score})

\* C4: chunks of equal score keep their original order, which is note order
\* as fetched and then ascending chunk index within a note, so that among
\* tied chunks the earliest are the ones kept in the top 5.
C4_StableSort ==
    Retrieved =>
        /\ LET firsts == SelectSeq(scoredChunks, LAMBDA c : c.chunkIndex = 1)
               chunked == SelectSeq(hNotes, LAMBDA note : Trim(BaseText(note)) # <<>>)
           IN  /\ Len(firsts) = Len(chunked)
               /\ \A i \in 1..Len(firsts) : firsts[i].noteTitle = NoteTitle(chunked[i])
        /\ \A i \in 1..Len(scoredChunks) :
               \/ scoredChunks[i].chunkIndex = 1
               \/ /\ i > 1
                  /\ scoredChunks[i].chunkIndex = scoredChunks[i - 1].chunkIndex + 1
                  /\ scoredChunks[i].noteTitle = scoredChunks[i - 1].noteTitle
        /\ \A i \in 1..Len(scoredChunks) :
               Rank(i) <= Len(topChunks) => topChunks[Rank(i)] = scoredChunks[i]
        /\ \A i \in 1..Len(scoredChunks) : Rank(i) <= 5 => Rank(i) <= Len(topChunks)

\* a retrieval whose fifth chunk ties with a chunk left out, and that
\* returned two tied chunks of one note
C4_Witness ==
    /\ Retrieved
    /\ Len(topChunks) = 5
    /\ \E i \in 1..Len(scoredChunks) :
           Rank(i) > 5 /\ scoredChunks[i].score = topChunks[5].score
    /\ \E i \in 1..4 :
           /\ topChunks[i].score = topChunks[i + 1].score
           /\ topChunks[i].chunkIndex + 1 = topChunks[i + 1].chunkIndex
           /\ topChunks[i].chunkIndex > 1

-----------------------------------------------------------------------------
(* Properties of the post-processing *)

\* a route has answered after the provider call resolved with a completion
Answered(route) ==
    /\ req.route = route
    /\ hPc = "done"
    /\ completion.kind \in {"malformed", "content"}

\* the chat route has answered a completion whose content denotes a value
ChatParsed ==
    Answered("chat") /\ completion.kind = "content" /\ completion.parses

\* C7: when the content of the completion is not JSON, the chat route
\* answers 200 with the fallback reply, never through the outer catch.
C7_ParseFailureFallback ==
    (Answered("chat") /\ completion.kind = "content" /\ ~completion.parses) =>
        res = Json(200, ReplyBody(Str(FallbackReply)))

\* the chat route has answered a content that is not JSON
C7_Witness ==
    /\ Answered("chat")
    /\ completion.kind = "content"
    /\ ~completion.parses
    /\ res.status = 200

\* the schema the chat prompt requires of the model output
ValidChatOutput(v) ==
    /\ v.t = "object"
    /\ Get(v, "spoken_answer").t = "string"
    /\ Get(v, "citations").t = "array"
    /\ \A i \in 1..Len(Get(v, "citations").v) : Get(v, "citations").v[i].t = "object"
    /\ Get(v, "confidence").t = "string"

\* the provider resolved, with something the required schema does not allow
SchemaInvalid ==
    \/ completion.kind = "malformed"
    \/ completion.kind = "content" /\ ~completion.parses
    \/ completion.kind = "content" /\ completion.value.t # "object"
    \/ req.route = "chat" /\ completion.kind = "content"
           /\ ~ValidChatOutput(completion.value)

\* C8: a provider response that arrives but is not valid per the required
\* schema gets a non-5xx answer from the chat, study and grade routes.
C8_SchemaInvalidNeverFails ==
    (hPc = "done" /\ SchemaInvalid) => res.status < 500

\* C9: when spoken_answer contains the refusal string for the subject, the
\* chat reply is that spoken_answer, unchanged and without evidence block.
C9_RefusalVerbatim ==
    ChatParsed =>
        LET spoken == IF CanRead(completion.value)
                      THEN Get(completion.value, "spoken_answer") ELSE Undef
        IN  (spoken.t = "string"
                /\ StringIncludes(spoken.v,
                       RefusalPrefix \o <<SP>> \o Subject(req.body).v))
            => res = Json(200, ReplyBody(spoken))

\* a refusal that follows other text, ends in whitespace and comes with
\* citations has been answered
C9_Witness ==
    /\ ChatParsed
    /\ completion.value.t = "object"
    /\ LET spoken == Get(completion.value, "spoken_answer")
       IN  /\ spoken.t = "string"
           /\ StringIncludes(spoken.v, RefusalPrefix \o <<SP>> \o Subject(req.body).v)
           /\ spoken.v[1] # RefusalPrefix[1]
           /\ Trim(spoken.v) # spoken.v
           /\ res = Json(200, ReplyBody(spoken))
    /\ HasCitations(Get(completion.value, "citations"))

\* the chat route has sent a normal answer: a 200 built from a truthy model
\* output that is not a refusal
NormalAnswer ==
    /\ ChatParsed
    /\ res.status = 200
    /\ Truthy(completion.value)
    /\ LET spoken == Get(completion.value, "spoken_answer")
       IN  ~(Truthy(spoken) /\ HasIncludes(spoken) /\ Includes(spoken, RefusalPrefix))

-----------------------------------------------------------------------------
(* Properties of chunkText *)

\* the step-by-step run returns what the function returns
ChunkRunIsFunction == cPc = "done" => cChunks = chunkText(cText, cMax)

\* the paragraphs of the text that the loop does not skip, trimmed
TrimmedParas ==
    SelectSeq([i \in 1..Len(cParas) |-> Trim(cParas[i])], LAMBDA p : p # <<>>)

RECURSIVE ConcatAll(_)
ConcatAll(seqs) ==
    IF seqs = <<>> THEN <<>> ELSE Head(seqs) \o ConcatAll(Tail(seqs))

\* C1: every chunk chunkText has emitted, at every point of the run and in
\* the returned sequence, is at most maxChars long.
C1_ChunkWithinMax ==
    \A i \in 1..Len(cChunks) : Len(cChunks[i]) <= cMax

\* a finished run that emitted a chunk accumulated from two paragraphs and
\* hard-split another paragraph
C1_Witness ==
    /\ cPc = "done"
    /\ \E i \in 1..Len(cChunks) :
           /\ Len(cChunks[i]) = cMax
           /\ \E k \in 1..(Len(cChunks[i]) - 1) : SubSeq(cChunks[i], k, k + 1) = Sep
    /\ \E j \in 1..Len(TrimmedParas) : Len(TrimmedParas[j]) > cMax

\* C2: the non-whitespace characters of the returned chunks, read in index
\* order, are the non-whitespace characters of the text.
C2_NonSpacePreserved ==
    (cPc = "done" /\ cText # Undefined) =>
        ConcatAll([i \in 1..Len(cChunks) |-> NonSpace(cChunks[i])]) = NonSpace(cText)

\* a finished run over both letters that flushed the buffer and hard-split
\* a paragraph
C2_Witness ==
    /\ cPc = "done"
    /\ cText # Undefined
    /\ Len(cChunks) >= 3
    /\ \E i, j \in 1..Len(cText) : cText[i] = "a" /\ cText[j] = "b"
    /\ \E j \in 1..Len(TrimmedParas) : Len(TrimmedParas[j]) > cMax
    /\ Len(TrimmedParas) >= 2

-----------------------------------------------------------------------------
(* The folder routes and the page that calls them *)

MaxPages == 2
MaxFolderRows == 4

\* const MAX_FOLDERS = 3 of the page; the literal 3 of the route
MAX_FOLDERS == 3
FolderLimit == 3

Pages == 1..MaxPages

\* the id column of a folder row, as the notes reference it
FolderKey(id) == Chars("f") \o NatToString(id)

\* a page at rest: its user, the ids of its state folders, no request in flight
Page(user, shown) == [user |-> user, shown |-> shown, pc |-> "ready", count |-> 0]

\* SELECT COUNT(*) FROM folders WHERE user_id = $1
CountFolders(rows, userId) ==
    Cardinality({i \in 1..Len(rows) : rows[i].user_id = userId})

\* the ids of SELECT * FROM folders WHERE user_id = $1
FolderIds(rows, userId) ==
    {rows[i].id : i \in {j \in 1..Len(rows) : rows[j].user_id = userId}}

FolderInit ==
    /\ ChunkIdle
    /\ ScoreIdle
    /\ ApiIdle
    /\ ConfIdle
    /\ HistIdle
    /\ MoreIdle
    /\ folders = <<>>
    /\ creates \in [Pages -> {Page(u, {}) : u \in Users}]
    /\ nextId = 0

\* fetchData of the page: GET /api/folders, then setFolders(data)
LoadFolders(p) ==
    /\ creates[p].pc = "ready"
    /\ creates[p].shown # FolderIds(folders, creates[p].user)
    /\ creates' = [creates EXCEPT ![p].shown = FolderIds(folders, creates[p].user)]
    /\ UNCHANGED <<folders, nextId>>
    /\ UNCHANGED <<chunkVars, scoreVars, apiVars, confVars, histVars, moreVars>>

\* handleCreateFolder up to the fetch: the page refuses at MAX_FOLDERS,
\* otherwise POST /api/folders is sent
HandleCreateFolder(p) ==
    /\ creates[p].pc = "ready"
    /\ ~(Cardinality(creates[p].shown) >= MAX_FOLDERS)
    /\ nextId < MaxFolderRows
    /\ creates' = [creates EXCEPT ![p].pc = "count"]
    /\ UNCHANGED <<folders, nextId>>
    /\ UNCHANGED <<chunkVars, scoreVars, apiVars, confVars, histVars, moreVars>>

\* app.post('/api/folders'): the count query resolved; 403 at the limit,
\* otherwise the insert is issued
CreateFolderCount(p) ==
    /\ creates[p].pc = "count"
    /\ LET count == CountFolders(folders, creates[p].user)
       IN  creates' = [creates EXCEPT ![p].count = IF count >= FolderLimit THEN 0
                                                   ELSE count,
                                      ![p].pc = IF count >= FolderLimit THEN "ready"
                                                ELSE "insert"]
    /\ UNCHANGED <<folders, nextId>>
    /\ UNCHANGED <<chunkVars, scoreVars, apiVars, confVars, histVars, moreVars>>

\* app.post('/api/folders'): the insert resolved, 201 with the new row; the
\* page appends the row to its folders
CreateFolderInsert(p) ==
    /\ creates[p].pc = "insert"
    /\ nextId' = nextId + 1
    /\ folders' = Append(folders, [id |-> nextId + 1, user_id |-> creates[p].user])
    /\ creates' = [creates EXCEPT ![p].shown = creates[p].shown \cup {nextId + 1},
                                  ![p].count = 0,
                                  ![p].pc = "ready"]
    /\ UNCHANGED <<chunkVars, scoreVars, apiVars, confVars, histVars, moreVars>>

\* app.post('/api/folders'): a query rejected, 500; the page alerts
CreateFolderRejected(p) ==
    /\ creates[p].pc \in {"count", "insert"}
    /\ creates' = [creates EXCEPT ![p].count = 0, ![p].pc = "ready"]
    /\ UNCHANGED <<folders, nextId>>
    /\ UNCHANGED <<chunkVars, scoreVars, apiVars, confVars, histVars, moreVars>>

\* deleteFolder of the page and app.delete('/api/folders/:id'): the row goes,
\* and with it the notes that reference it; the page drops the folder
DeleteFolder(p, id) ==
    /\ creates[p].pc = "ready"
    /\ id \in creates[p].shown
    /\ folders' = SelectSeq(folders,
                      LAMBDA row : ~(row.id = id /\ row.user_id = creates[p].user))
    /\ notes' = SelectSeq(notes, LAMBDA row : row.folder_id # FolderKey(id))
    /\ creates' = [creates EXCEPT ![p].shown = creates[p].shown \ {id}]
    /\ UNCHANGED <<openai, req, hPc, hNotes, scoredChunks, topChunks, completion, res,
                   fetches, providerCalls, nextId>>
    /\ UNCHANGED <<chunkVars, scoreVars, confVars, histVars, moreVars>>

FolderNext ==
    \/ \E p \in Pages : LoadFolders(p)
    \/ \E p \in Pages : HandleCreateFolder(p)
    \/ \E p \in Pages : CreateFolderCount(p)
    \/ \E p \in Pages : CreateFolderInsert(p)
    \/ \E p \in Pages : CreateFolderRejected(p)
    \/ \E p \in Pages : \E id \in creates[p].shown : DeleteFolder(p, id)

SpecFolders == FolderInit /\ [][FolderNext]_vars

\* C11: after any sequence of create-folder and delete-folder requests,
\* interleaved or not, each user owns at most 3 folders.
C11_AtMostThreeFolders ==
    \A u \in Users : CountFolders(folders, u) <= 3

-----------------------------------------------------------------------------
(* Properties of the study and grade routes and of validation *)

\* the request is a study request that names a folder in which the
\* requesting user has no note
StudyOfEmptyFolder ==
    /\ req.route = "study"
    /\ Truthy(req.body.folderId)
    /\ \A i \in 1..Len(notes) :
           ~(notes[i].user_id = req.userId /\ notes[i].folder_id = req.body.folderId.v)

\* the response is a study set without items and with a non-empty message
IsEmptyStudySet(response) ==
    /\ response.status = 200
    /\ response.body.t = "object"
    /\ Get(response.body, "mcqs") = Arr(<<>>)
    /\ Get(response.body, "short_answer_questions") = Arr(<<>>)
    /\ Get(response.body, "references") = Arr(<<>>)
    /\ Get(response.body, "message").t = "string"
    /\ Get(response.body, "message").v # <<>>

MissingRequiredField ==
    \/ req.route = "chat" /\ (req.body.message = Undef \/ req.body.folderId = Undef)
    \/ req.route = "study" /\ req.body.folderId = Undef
    \/ req.route = "grade" /\ (req.body.question = Undef \/ req.body.userAnswer = Undef
                                  \/ req.body.modelAnswer = Undef)

\* C13: a chat, study or grade request that lacks a required field is
\* answered with a client error at once, without a note query and without a
\* provider call, whether or not the client is configured.
C13_RejectedBeforeCoreLogic ==
    MissingRequiredField =>
        /\ hPc = "done"
        /\ res.status \in 400..499
        /\ fetches = 0
        /\ providerCalls = 0
        /\ hNotes = NotFetched
        /\ scoredChunks = <<>>
        /\ completion = NoCompletion

\* an unconfigured server has rejected a grade request that lacks only
\* userAnswer
C13_Witness ==
    /\ req.route = "grade"
    /\ req.body.userAnswer = Undef
    /\ req.body.question # Undef
    /\ req.body.modelAnswer # Undef
    /\ ~openai
    /\ hPc = "done"
    /\ res = Json(400, ErrorBody("Missing required fields"))

\* the request has every field its route requires
ValidRequest ==
    \/ req.route = "chat" /\ Truthy(req.body.message) /\ Truthy(req.body.folderId)
    \/ req.route = "study" /\ Truthy(req.body.folderId)
    \/ req.route = "grade" /\ Truthy(req.body.question) /\ Truthy(req.body.userAnswer)
                           /\ Truthy(req.body.modelAnswer)

-----------------------------------------------------------------------------
(* computeConfidence, in the two servers *)

MaxTopScore == 25

\* the thresholds of computeConfidence in src/unnamed/part_000
StrictHigh == 5
StrictMedium == 2
StrictLow == 1

\* the thresholds of computeConfidence in src/backend/server.js
LooseHigh == 20
LooseMedium == 8
LooseLow == 3

\* a computeConfidence whose Medium starts one score late
computeConfidenceLate(topScore) ==
    IF topScore >= StrictHigh THEN "High"
    ELSE IF topScore >= StrictMedium + 1 THEN "Medium"
    ELSE IF topScore >= StrictLow THEN "Low"
    ELSE "Low"

\* computeConfidence(topScore) of src/unnamed/part_000
computeConfidence(topScore) ==
    IF topScore >= StrictHigh THEN "High"
    ELSE IF topScore >= StrictMedium THEN "Medium"
    ELSE IF topScore >= StrictLow THEN "Low"
    ELSE "Low"

\* computeConfidence(topScore) of src/backend/server.js
computeConfidenceLoose(topScore) ==
    IF topScore >= LooseHigh THEN "High"
    ELSE IF topScore >= LooseMedium THEN "Medium"
    ELSE IF topScore >= LooseLow THEN "Low"
    ELSE "Low"

TopScores == (0 - MaxTopScore)..MaxTopScore

ConfInit ==
    /\ ChunkIdle
    /\ ScoreIdle
    /\ ApiIdle
    /\ FolderIdle
    /\ HistIdle
    /\ MoreIdle
    /\ kScore \in TopScores
    /\ kPolicy \in {"stricter", "looser"}
    /\ kLabel = "none"
    /\ kPc = "call"

\* a call of computeConfidence of src/unnamed/part_000
ConfidenceCall ==
    /\ kPc = "call"
    /\ kPolicy = "stricter"
    /\ kLabel' = computeConfidence(kScore)
    /\ kPc' = "done"
    /\ UNCHANGED <<kScore, kPolicy, chunkVars, scoreVars, apiVars, folderVars, histVars, moreVars>>

\* a call of computeConfidence of src/backend/server.js
ConfidenceCallLoose ==
    /\ kPc = "call"
    /\ kPolicy = "looser"
    /\ kLabel' = computeConfidenceLoose(kScore)
    /\ kPc' = "done"
    /\ UNCHANGED <<kScore, kPolicy, chunkVars, scoreVars, apiVars, folderVars, histVars, moreVars>>

ConfNext == ConfidenceCall \/ ConfidenceCallLoose

SpecConfidence == ConfInit /\ [][ConfNext]_vars

\* the order Low < Medium < High
LabelRank(label) ==
    CASE label = "Low" -> 1
      [] label = "Medium" -> 2
      [] label = "High" -> 3
      [] OTHER -> 0

\* C16: computeConfidence returns Low, Medium or High for every integer
\* score: in the stricter policy High iff score >= 5, Medium iff
\* 2 <= score < 5, Low otherwise; in the looser policy High iff score >= 20,
\* Medium iff 8 <= score < 20, Low otherwise; a higher score never gets a
\* lower label.
C16_ConfidenceThresholds ==
    kPc = "done" =>
        /\ kLabel \in {"Low", "Medium", "High"}
        /\ kPolicy = "stricter" =>
               /\ kLabel = "High" <=> kScore >= 5
               /\ kLabel = "Medium" <=> (2 <= kScore /\ kScore < 5)
               /\ kLabel = "Low" <=> kScore < 2
               /\ \A lower \in TopScores :
                      lower <= kScore =>
                          LabelRank(computeConfidence(lower)) <= LabelRank(kLabel)
        /\ kPolicy = "looser" =>
               /\ kLabel = "High" <=> kScore >= 20
               /\ kLabel = "Medium" <=> (8 <= kScore /\ kScore < 20)
               /\ kLabel = "Low" <=> kScore < 8
               /\ \A lower \in TopScores :
                      lower <= kScore =>
                          LabelRank(computeConfidenceLoose(lower)) <= LabelRank(kLabel)

\* the stricter policy has labelled the score 2, the lowest Medium
C16_Witness ==
    kPc = "done" /\ kPolicy = "stricter" /\ kScore = 2 /\ kLabel = "Medium"

-----------------------------------------------------------------------------
(* Properties of the confidence label and of the grade response *)

\* the score of the top-ranked retrieved chunk; no chunk scores like 0
TopScore == IF topChunks = <<>> THEN 0 ELSE topChunks[1].score

\* C15: the confidence label of the grounded answer that the chat route
\* sends is computeConfidence of the score of the top-ranked retrieved chunk.
C15_ConfidenceFromRetrieval ==
    NormalAnswer =>
        LET label == Chars(computeConfidence(TopScore))
        IN  /\ Get(completion.value, "confidence") = Str(label)
            /\ \/ Get(res.body, "confidence") = Str(label)
               \/ StringIncludes(res.body.v.reply.v, label)

\* C17: every 200 response of the grade route carries an integer score
\* between 0 and 10 and a feedback string, whatever the provider returned.
C17_GradeScoreInRange ==
    (req.route = "grade" /\ hPc = "done" /\ res.status = 200) =>
        /\ res.body.t = "object"
        /\ Get(res.body, "score").t = "number"
        /\ Get(res.body, "score").v \in 0..10
        /\ Get(res.body, "feedback").t = "string"

-----------------------------------------------------------------------------
(* The templated study route of src/backend/server.js *)

PoolSize == 20
McqCount == 5
SaqEnd == 8
PreviewMax == 200

\* the chunks pushed for one note: { noteId, title, chunkIndex, text }; the
\* rows carry no id, and nothing reads noteId
StudyNoteChunks(note) ==
    LET noteChunks == chunkText(BaseText(note), DefaultMaxChars)
    IN  [idx \in 1..Len(noteChunks) |->
            [title |-> NoteTitle(note), chunkIndex |-> idx, text |-> noteChunks[idx]]]

RECURSIVE StudyChunks(_)
\* for (const note of notes) noteChunks.forEach(... chunks.push ...)
StudyChunks(rows) ==
    IF rows = <<>> THEN <<>>
    ELSE StudyNoteChunks(Head(rows)) \o StudyChunks(Tail(rows))

\* snippetPreview(text, maxLen = 200)
snippetPreview(text) ==
    IF text = <<>> THEN <<>>
    ELSE IF Len(text) > PreviewMax THEN Slice(text, 0, PreviewMax) \o Chars("...")
    ELSE text

\* `(note "${chunk.title}", chunk ${chunk.chunkIndex}):\n${preview}`
SupportingExcerpt(chunk) ==
    Chars("Supporting excerpt (note \"") \o chunk.title \o Chars("\", chunk ")
        \o NatToString(chunk.chunkIndex) \o Chars("):") \o <<NL>>
        \o snippetPreview(chunk.text)

\* citations: [{ fileName: chunk.title, reference: `chunk ${chunk.chunkIndex}` }]
StudyCitations(chunk) ==
    Arr(<<Obj([fileName |-> Str(chunk.title),
               reference |-> Str(Chars("chunk ") \o NatToString(chunk.chunkIndex))])>>)

McqOptions ==
    Arr(<<Str(Chars("A. A statement that is consistent with this excerpt from your notes.")),
          Str(Chars("B. An idea that is unrelated to this excerpt.")),
          Str(Chars("C. A claim that contradicts this excerpt.")),
          Str(Chars("D. A topic that is not covered in your notes."))>>)

\* the callback of poolChunks.slice(0, 5).map, for idx + 1 = k
TemplatedMcq(chunk, k) ==
    Obj([id |-> Str(Chars("mcq-") \o NatToString(k)),
         question |-> Str(Chars("According to your notes (note \"") \o chunk.title
                          \o Chars("\"), which option best reflects the idea expressed in this excerpt?")
                          \o <<NL, NL, "\"">> \o snippetPreview(chunk.text) \o <<"\"">>),
         options |-> McqOptions,
         correctOption |-> Str(Chars("A")),
         explanation |-> Str(Chars("Option A is correct because it is defined to align with the provided excerpt from your notes.")
                             \o <<NL, NL>> \o SupportingExcerpt(chunk)),
         citations |-> StudyCitations(chunk)])

\* the callback of poolChunks.slice(5, 8).map, for idx + 1 = k
TemplatedSaq(chunk, k) ==
    Obj([id |-> Str(Chars("sa-") \o NatToString(k)),
         question |-> Str(Chars("Summarize the key idea from this excerpt (note \"") \o chunk.title
                          \o Chars("\") in your own words:")
                          \o <<NL, NL, "\"">> \o snippetPreview(chunk.text) \o <<"\"">>),
         modelAnswer |-> Str(Chars("A good answer will capture the main idea expressed in the excerpt.")
                             \o <<NL, NL>> \o SupportingExcerpt(chunk)),
         citations |-> StudyCitations(chunk)])

\* the response for a folder without notes or without chunks
TemplatedEmpty ==
    Obj([mcqs |-> Arr(<<>>), shortAnswers |-> Arr(<<>>),
         message |-> Str(Chars("Not found in your notes for this Subject."))])

\* { mcqs, shortAnswers } for a non-empty chunks
TemplatedStudySet(chunks) ==
    LET poolChunks == Slice(chunks, 0, PoolSize)
        forMcqs    == Slice(poolChunks, 0, McqCount)
        forSaqs    == Slice(poolChunks, McqCount, SaqEnd)
    IN  Obj([mcqs |-> Arr([k \in 1..Len(forMcqs) |-> TemplatedMcq(forMcqs[k], k)]),
             shortAnswers |-> Arr([k \in 1..Len(forSaqs) |-> TemplatedSaq(forSaqs[k], k)])])

\* a table whose folder yields more than PoolSize chunks
PoolTable == [i \in 1..7 |-> LongNote]

TemplatedInit ==
    /\ ChunkIdle
    /\ ScoreIdle
    /\ RestIdle
    /\ openai \in BOOLEAN
    /\ notes \in Tables \cup {PoolTable}
    /\ req = NoRequest
    /\ hPc = "idle"
    /\ hNotes = NotFetched
    /\ scoredChunks = <<>>
    /\ topChunks = <<>>
    /\ completion = NoCompletion
    /\ res = NoResponse
    /\ fetches = 0
    /\ providerCalls = 0

\* app.post('/api/study') of server.js: validation, then the note query is
\* issued
TemplatedRequest ==
    /\ hPc = "idle"
    /\ \E u \in Users, body \in StudyBodies :
        /\ req' = [route |-> "templated", userId |-> u, body |-> body]
        /\ IF ~Truthy(body.folderId)
           THEN /\ res' = Json(400, ErrorBody("folderId is required"))
                /\ hPc' = "done"
                /\ UNCHANGED fetches
           ELSE /\ hPc' = "fetch"
                /\ fetches' = fetches + 1
                /\ UNCHANGED res
    /\ UNCHANGED <<openai, notes, scoredChunks, topChunks, completion, providerCalls>>
    /\ UNCHANGED <<chunkVars, scoreVars, restVars, hNotes>>

\* app.post('/api/study') of server.js: the note query resolved; the empty
\* response or the templated study set
TemplatedFetched ==
    /\ hPc = "fetch"
    /\ req.route = "templated"
    /\ LET rows   == FetchNotes(req.userId, req.body.folderId)
           chunks == StudyChunks(rows)
       IN  /\ hNotes' = rows
           /\ res' = IF rows = <<>> \/ chunks = <<>> THEN Json(200, TemplatedEmpty)
                     ELSE Json(200, TemplatedStudySet(chunks))
    /\ hPc' = "done"
    /\ UNCHANGED <<openai, notes, req, scoredChunks, topChunks, completion, fetches,
                   providerCalls>>
    /\ UNCHANGED <<chunkVars, scoreVars, restVars>>

TemplatedNext ==
    \/ TemplatedRequest
    \/ TemplatedFetched
    \/ FetchRejected

SpecTemplated == TemplatedInit /\ [][TemplatedNext]_vars

\* the templated route has answered for a folder that yields n chunks
TemplatedAnswered(n) ==
    /\ req.route = "templated"
    /\ hPc = "done"
    /\ hNotes # NotFetched
    /\ Len(StudyChunks(hNotes)) = n

\* item k of the array field of the study set cites chunk c
CitesChunk(item, c) ==
    LET cit == Get(item, "citations").v[1]
    IN  /\ Len(Get(item, "citations").v) = 1
        /\ Get(cit, "fileName") = Str(c.title)
        /\ Get(cit, "reference") = Str(Chars("chunk ") \o NatToString(c.chunkIndex))

\* C18: for every folder that yields at least one chunk, the templated study
\* set has exactly 5 MCQs built from chunks 1..5 and exactly 3 short-answer
\* questions built from chunks 6..8, every MCQ marks option A correct, and
\* every item cites the title and the chunk index of its own chunk.
C18_FiveMcqsThreeSaqs ==
    (\E n \in 1..(3 * PoolSize) : TemplatedAnswered(n)) =>
        LET chunks == StudyChunks(hNotes)
            mcqs   == Get(res.body, "mcqs").v
            saqs   == Get(res.body, "shortAnswers").v
        IN  /\ res.status = 200
            /\ Len(mcqs) = 5
            /\ Len(saqs) = 3
            /\ \A k \in 1..5 :
                   /\ mcqs[k] = TemplatedMcq(chunks[k], k)
                   /\ Get(mcqs[k], "correctOption") = Str(Chars("A"))
                   /\ CitesChunk(mcqs[k], chunks[k])
            /\ \A k \in 1..3 :
                   /\ saqs[k] = TemplatedSaq(chunks[5 + k], k)
                   /\ CitesChunk(saqs[k], chunks[5 + k])

-----------------------------------------------------------------------------
(* The conversation history of the chat route *)

MaxTurns == 4

HistoryWindow == 10
PromptWindow == 3

\* a slice that keeps the first n elements
SliceFirst(arr, n) ==
    SubSeq(arr, 1, IF n > Len(arr) THEN Len(arr) ELSE n)

\* Array.prototype.slice(-n)
SliceLast(arr, n) ==
    SubSeq(arr, IF Len(arr) > n THEN Len(arr) - n + 1 ELSE 1, Len(arr))

\* msg.role === 'model' ? 'assistant' : 'user'
RoleLabel(role) ==
    IF role = Str(Chars("model")) THEN Str(Chars("assistant")) ELSE Str(Chars("user"))

\* contextNotes.slice(-10).map(msg => ({ role: ..., content: msg.content }))
HistoryMessages(contextNotes) ==
    LET recent == SliceLast(contextNotes, HistoryWindow)
    IN  [i \in 1..Len(recent) |->
            Obj([role |-> RoleLabel(Get(recent[i], "role")),
                 content |-> Get(recent[i], "content")])]

\* m.role + ': ' + m.content
HistoryLine(m) ==
    JsToString(Get(m, "role")) \o Chars(": ") \o JsToString(Get(m, "content"))

RECURSIVE JoinLines(_)
\* Array.prototype.join('\n') on an array of strings
JoinLines(lines) ==
    IF lines = <<>> THEN <<>>
    ELSE IF Len(lines) = 1 THEN Head(lines)
    ELSE Head(lines) \o <<NL>> \o JoinLines(Tail(lines))

\* what JSON.stringify writes for one character of a string
JsonEscape(c) ==
    CASE c = "\"" -> <<"\\", "\"">>
      [] c = "\\" -> <<"\\", "\\">>
      [] c = NL -> <<"\\", "n">>
      [] OTHER -> <<c>>

RECURSIVE JsonEscapeAll(_)
JsonEscapeAll(str) ==
    IF str = <<>> THEN <<>> ELSE JsonEscape(Head(str)) \o JsonEscapeAll(Tail(str))

\* JSON.stringify of a string
JsonStringify(str) == <<"\"">> \o JsonEscapeAll(str) \o <<"\"">>

\* the value of "conversation_history" in the system prompt
ConversationHistory(historyMessages) ==
    LET recent == SliceLast(historyMessages, PromptWindow)
    IN  JsonStringify(JoinLines([i \in 1..Len(recent) |-> HistoryLine(recent[i])]))

Turn(role, content) == Obj([role |-> role, content |-> content])

TurnRoles == {Str(Chars("model")), Str(Chars("user")), Str(Chars("assistant")), Undef}
TurnContents == {Str(Chars("hi")), Str(<<"a", NL, "\"", "b">>)}
Turns == {Turn(r, c) : r \in TurnRoles, c \in TurnContents}

\* histories longer than the two windows: numbered turns of alternating role
LongHistories ==
    {[i \in 1..n |-> Turn(IF i % 2 = 0 THEN Str(Chars("model")) ELSE Str(Chars("user")),
                          Str(NatToString(i)))] :
        n \in (HistoryWindow - 1)..(HistoryWindow + 2)}

HistInit ==
    /\ ChunkIdle
    /\ ScoreIdle
    /\ ApiIdle
    /\ FolderIdle
    /\ ConfIdle
    /\ MoreIdle
    /\ xContext \in SeqsUpTo(Turns, MaxTurns) \cup LongHistories
    /\ xMessages = <<>>
    /\ xHistory = <<>>
    /\ xPc = "call"

\* app.post('/api/chat'): const historyMessages = ...
HistoryMap ==
    /\ xPc = "call"
    /\ xMessages' = HistoryMessages(xContext)
    /\ xPc' = "mapped"
    /\ UNCHANGED <<xContext, xHistory>>
    /\ UNCHANGED <<chunkVars, scoreVars, apiVars, folderVars, confVars, moreVars>>

\* app.post('/api/chat'): the systemPrompt template embeds the history
HistoryEmbed ==
    /\ xPc = "mapped"
    /\ xHistory' = ConversationHistory(xMessages)
    /\ xPc' = "done"
    /\ UNCHANGED <<xContext, xMessages>>
    /\ UNCHANGED <<chunkVars, scoreVars, apiVars, folderVars, confVars, moreVars>>

HistNext == HistoryMap \/ HistoryEmbed

SpecHistory == HistInit /\ [][HistNext]_vars

\* the label of the turn at position i of contextNotes
TurnLabel(i) ==
    IF Get(xContext[i], "role") = Str(Chars("model")) THEN Chars("assistant")
    ELSE Chars("user")

\* C19: for a history of n turns, historyMessages is the last min(10, n)
\* turns, and the history embedded in the system prompt is the last
\* min(3, n) turns in their order, each whole and rendered 'role: content',
\* the role being assistant iff the turn's role is model and user otherwise.
C19_HistoryLastThree ==
    xPc = "done" =>
        LET n == Len(xContext)
            m == IF n < 10 THEN n ELSE 10
            k == IF n < 3 THEN n ELSE 3
        IN  /\ Len(xMessages) = m
            /\ \A i \in 1..m :
                   /\ Get(xMessages[i], "role").v = TurnLabel(n - m + i)
                   /\ Get(xMessages[i], "content") = Get(xContext[n - m + i], "content")
            /\ xHistory = JsonStringify(JoinLines(
                   [i \in 1..k |-> TurnLabel(n - k + i) \o Chars(": ")
                                       \o Get(xContext[n - k + i], "content").v]))

\* a history of more than ten turns has been embedded
C19_Witness ==
    /\ xPc = "done"
    /\ Len(xContext) > 10
    /\ Len(xMessages) = 10
    /\ xHistory = JsonStringify(Chars("assistant: 10") \o <<NL>> \o Chars("user: 11")
                                    \o <<NL>> \o Chars("assistant: 12"))

-----------------------------------------------------------------------------
(* Paragraphs of exactly maxChars *)

\* the returned chunks hold each paragraph of exactly maxChars at least as
\* often as the text does
ExactParagraphsReturned ==
    cPc = "done" =>
        \A j \in 1..Len(TrimmedParas) :
            Len(TrimmedParas[j]) = cMax =>
                Cardinality({i \in 1..Len(cChunks) : cChunks[i] = TrimmedParas[j]})
                    >= Cardinality({k \in 1..Len(TrimmedParas) :
                                       TrimmedParas[k] = TrimmedParas[j]})

\* a step at a paragraph of exactly maxChars makes the paragraph the buffer,
\* on its own and without entering the hard-split loop; a step from a buffer
\* of maxChars either skips a blank paragraph or pushes the buffer as it is
ExactParagraphStep ==
    /\ (cPc = "loop" /\ cIdx <= Len(cParas) /\ Len(Trim(cParas[cIdx])) = cMax) =>
           /\ cPc' = "loop"
           /\ cCurrent' = Trim(cParas[cIdx])
           /\ cChunks' = IF cCurrent # <<>> THEN Append(cChunks, cCurrent) ELSE cChunks
    /\ (cPc = "loop" /\ Len(cCurrent) = cMax) =>
           \/ cCurrent' = cCurrent /\ cChunks' = cChunks /\ cPc' = "loop"
           \/ cChunks' = Append(cChunks, cCurrent)

\* C20: a paragraph whose trimmed length is exactly maxChars is returned as
\* one chunk equal to the paragraph, neither hard-split nor merged with a
\* neighbouring paragraph.
C20_ExactParagraphKeptWhole ==
    [][ExactParagraphStep]_vars /\ []ExactParagraphsReturned

\* a finished run over a paragraph of exactly maxChars between two shorter
\* paragraphs
C20_Witness ==
    /\ cPc = "done"
    /\ cMax >= 2
    /\ Len(TrimmedParas) = 3
    /\ Len(TrimmedParas[1]) < cMax
    /\ Len(TrimmedParas[2]) = cMax
    /\ Len(TrimmedParas[3]) < cMax
    /\ Len(cChunks) = 3
    /\ cChunks[2] = TrimmedParas[2]

-----------------------------------------------------------------------------
(* Further properties of chunkText *)

\* C21: chunkText returns the empty sequence for the empty string, for a
\* missing text and for every text made only of whitespace.
C21_BlankTextNoChunks ==
    (cPc = "done" /\ (cText = Undefined \/ \A i \in 1..Len(cText) : IsSpace(cText[i])))
        => cChunks = <<>>

\* a finished run over a text of tabs, spaces and a blank line
C21_Witness ==
    /\ cPc = "done"
    /\ cText # Undefined
    /\ Len(cText) >= 4
    /\ \A i \in 1..Len(cText) : IsSpace(cText[i])
    /\ \E i \in 1..Len(cText) : cText[i] = "\t"
    /\ \E i \in 1..Len(cText) : cText[i] = SP
    /\ \E i \in 1..(Len(cText) - 1) : cText[i] = NL /\ cText[i + 1] = NL
    /\ Len(cParas) >= 2
    /\ cChunks = <<>>

-----------------------------------------------------------------------------
(* tokenize on its own *)

MaxTokenTextLen == 4

TokenAlphabet == {"a", "B", "1", ",", SP, NL}

HelloWorld == Chars("Hello, World!")

RECURSIVE JoinSpaces(_)
\* tokens.join(' ')
JoinSpaces(tokens) ==
    IF tokens = <<>> THEN <<>>
    ELSE IF Len(tokens) = 1 THEN Head(tokens)
    ELSE Head(tokens) \o <<SP>> \o JoinSpaces(Tail(tokens))

TokInit ==
    /\ ChunkIdle
    /\ ScoreIdle
    /\ ApiIdle
    /\ FolderIdle
    /\ ConfIdle
    /\ HistIdle
    /\ contextText = <<>>
    /\ tText \in StringsUpTo(TokenAlphabet, MaxTokenTextLen) \cup {HelloWorld, Undefined}
    /\ tTokens = <<>>
    /\ tAgain = <<>>
    /\ tPc = "call"

\* a call of tokenize
TokenizeCall ==
    /\ tPc = "call"
    /\ tTokens' = tokenize(tText)
    /\ tPc' = "once"
    /\ UNCHANGED <<tText, tAgain, contextText>>
    /\ UNCHANGED <<chunkVars, scoreVars, apiVars, folderVars, confVars, histVars>>

\* a call of tokenize on the returned tokens joined by single spaces
TokenizeAgain ==
    /\ tPc = "once"
    /\ tAgain' = tokenize(JoinSpaces(tTokens))
    /\ tPc' = "done"
    /\ UNCHANGED <<tText, tTokens, contextText>>
    /\ UNCHANGED <<chunkVars, scoreVars, apiVars, folderVars, confVars, histVars>>

TokNext == TokenizeCall \/ TokenizeAgain

SpecTokenize == TokInit /\ [][TokNext]_vars

\* C22: tokenizing the tokens of a text joined by single spaces gives the
\* tokens again; every token is non-empty and made of a-z and 0-9 only; the
\* tokens of "Hello, World!" are hello and world.
C22_TokenizeIdempotent ==
    /\ tPc = "done" => tAgain = tTokens
    /\ tPc \in {"once", "done"} =>
           /\ \A i \in 1..Len(tTokens) :
                  /\ tTokens[i] # <<>>
                  /\ \A k \in 1..Len(tTokens[i]) :
                         tTokens[i][k] \in LowerLetters \cup Digits
           /\ tText = HelloWorld => tTokens = <<Chars("hello"), Chars("world")>>

\* a text of an upper-case letter, a symbol, a digit and whitespace has been
\* tokenized twice into two tokens
C22_Witness ==
    /\ tPc = "done"
    /\ tText # Undefined
    /\ \E i \in 1..Len(tText) : tText[i] = "B"
    /\ \E i \in 1..Len(tText) : tText[i] = ","
    /\ Len(tTokens) = 2
    /\ tAgain = tTokens
    /\ JoinSpaces(tTokens) # tText

\* an iteration of the hard-split loop moves start on by maxChars from a
\* position inside the paragraph, and the loop is left only past the end
HardSplitAdvances ==
    /\ (cPc = "split" /\ cPc' = "split") =>
           /\ cStart < Len(Trim(cParas[cIdx]))
           /\ cStart' = cStart + cMax
           /\ cStart' > cStart
    /\ (cPc = "split" /\ cPc' # "split") => cStart >= Len(Trim(cParas[cIdx]))

\* C23: for every text and every maxChars >= 1 chunkText returns: the
\* hard-split loop moves its start offset on by maxChars in each iteration
\* until the offset is past the end of the paragraph.
C23_ChunkTextTerminates ==
    <>(cPc = "done") /\ [][HardSplitAdvances]_vars

\* a call that hard-split a paragraph into three or more slices has returned
C23_Witness ==
    /\ cPc = "done"
    /\ cMax >= 1
    /\ \E j \in 1..Len(TrimmedParas) : Len(TrimmedParas[j]) > 2 * cMax
    /\ Len(cChunks) >= 3


------------------------------------------------------------------------------
(* Greedy accumulation *)

\* the offset of the first blank-line separator of chunk, 0 when it has none
FirstSep(chunk) ==
    LET at == {i \in 1..(Len(chunk) - 1) : chunk[i] = NL /\ chunk[i + 1] = NL}
    IN  IF at = {} THEN 0 ELSE CHOOSE i \in at : \A j \in at : i <= j

\* the first paragraph of a chunk that was accumulated in the buffer
FirstParagraph(chunk) ==
    IF FirstSep(chunk) = 0 THEN chunk ELSE SubSeq(chunk, 1, FirstSep(chunk) - 1)

\* chunk is a slice of some paragraph that is longer than maxChars
CanBeSlice(chunk) ==
    \E j \in 1..Len(TrimmedParas) :
        /\ Len(TrimmedParas[j]) > cMax
        /\ \E k \in 0..Len(TrimmedParas[j]) :
               chunk = Slice(TrimmedParas[j], k * cMax, (k + 1) * cMax)

\* one step of chunkText, seen from the chunks and the buffer
GreedyStep ==
    \* what was pushed stays as it is: nothing is merged into it later
    /\ Len(cChunks') >= Len(cChunks)
    /\ SubSeq(cChunks', 1, Len(cChunks)) = cChunks
    \* inside the paragraph loop the buffer is pushed only in front of a
    \* paragraph that does not fit behind it, and that paragraph, unless it
    \* is hard-split, starts the next buffer
    /\ (cPc = "loop" /\ cIdx <= Len(cParas) /\ cChunks' # cChunks) =>
           LET paragraph == Trim(cParas[cIdx])
           IN  /\ cChunks' = Append(cChunks, cCurrent)
               /\ Len(cCurrent) + Len(Sep) + Len(paragraph) > cMax
               /\ Len(paragraph) <= cMax => cCurrent' = paragraph
    \* a non-empty buffer grows only by a separator and a paragraph that fit
    /\ (cPc = "loop" /\ cCurrent # <<>> /\ cCurrent' # cCurrent
            /\ cChunks' = cChunks /\ cPc' = "loop") =>
           /\ cCurrent' = cCurrent \o Sep \o Trim(cParas[cIdx])
           /\ Len(cCurrent') <= cMax
    \* in the hard-split loop only slices are pushed
    /\ (cPc = "split" /\ cChunks' # cChunks) =>
           cChunks' = Append(cChunks,
               Slice(Trim(cParas[cIdx]), cStart, cStart + cMax))
    \* after the hard-split the buffer is empty
    /\ (cPc = "split" /\ cPc' = "loop") => (cCurrent' = <<>> /\ cChunks' = cChunks)

\* in the returned chunks, two neighbours that cannot be slices do not fit
\* together: the first, the separator and the first paragraph of the second
GreedyReturned ==
    cPc = "done" =>
        \A i \in 1..(Len(cChunks) - 1) :
            (~CanBeSlice(cChunks[i]) /\ ~CanBeSlice(cChunks[i + 1])) =>
                Len(cChunks[i]) + Len(Sep) + Len(FirstParagraph(cChunks[i + 1]))
                    > cMax

\* C24: chunkText accumulates greedily: inside the loop the buffer is pushed
\* only when the next paragraph with its separator would pass maxChars, so
\* two neighbouring chunks that are not hard-split slices never fit together;
\* after a hard-split the buffer is empty and no slice is merged with what
\* follows.
C24_GreedyAccumulation ==
    [][GreedyStep]_vars /\ []GreedyReturned

\* two paragraphs were accumulated and flushed, and the next one was hard-split
C24_Witness ==
    /\ cPc = "done"
    /\ cMax = 4
    /\ cText = Chars("a\n\na\n\naaaaa")
    /\ cChunks = <<Chars("a\n\na"), Chars("aaaa"), Chars("a")>>


------------------------------------------------------------------------------
(* The grounding context of the chat route *)

\* the length of the block written for a top chunk
BlockLen(chunk) == Len(CitationHeader(chunk)) + 1 + Len(chunk.text)

RECURSIVE BlockStart(_)
\* the position in contextText where the block of the chunk of rank i starts
BlockStart(i) ==
    IF i = 1 THEN 1
    ELSE BlockStart(i - 1) + BlockLen(topChunks[i - 1]) + Len(ContextSeparator)

\* the chat route has assembled its context
ContextAssembled ==
    /\ req # NoRequest
    /\ req.route = "chat"
    /\ hPc \in {"provider", "done"}
    /\ hNotes # NotFetched

\* C25: the context holds, for each top chunk in rank order, a header with
\* the chunk's note title and 1-based index and then the chunk's whole text;
\* it holds nothing else but the separators, and every top chunk is a whole
\* chunk of a fetched note.
C25_ContextWholeChunks ==
    ContextAssembled =>
        LET n      == Len(topChunks)
            chunks == AllChunks(hNotes)
        IN  /\ n <= TopK
            /\ \A i \in 1..(n - 1) : topChunks[i].score >= topChunks[i + 1].score
            /\ Len(contextText) =
                   IF n = 0 THEN 0 ELSE BlockStart(n) + BlockLen(topChunks[n]) - 1
            /\ \A i \in 1..n :
                   LET chunk  == topChunks[i]
                       header == CitationHeader(chunk)
                       at     == BlockStart(i)
                   IN  /\ SubSeq(contextText, at, at + Len(header) - 1) = header
                       /\ contextText[at + Len(header)] = NL
                       /\ SubSeq(contextText, at + Len(header) + 1,
                                 at + BlockLen(chunk) - 1) = chunk.text
                       /\ chunk.chunkIndex >= 1
                       /\ \E k \in 1..Len(chunks) :
                              /\ chunks[k].text = chunk.text
                              /\ chunks[k].noteTitle = chunk.noteTitle
                              /\ chunks[k].chunkIndex = chunk.chunkIndex

\* five chunks were retrieved, one of them a hard-split slice of 800
\* characters, and more chunks than five were in the folder
C25_Witness ==
    /\ ContextAssembled
    /\ Len(topChunks) = TopK
    /\ Len(scoredChunks) > TopK
    /\ \E i \in 1..Len(topChunks) : Len(topChunks[i].text) = DefaultMaxChars
    /\ Len(contextText) > DefaultMaxChars


------------------------------------------------------------------------------
(* The reply of the chat route *)

\* s without the whitespace at its end
TrimTrailing(s) ==
    IF \A i \in 1..Len(s) : IsSpace(s[i])
    THEN <<>>
    ELSE LET last == CHOOSE i \in 1..Len(s) :
                         ~IsSpace(s[i]) /\ \A j \in (i + 1)..Len(s) : IsSpace(s[j])
         IN  SubSeq(s, 1, last)

\* spoken_answer, then the evidence block with one line per citation in the
\* order of the model output; no block without citations
SpokenThenEvidence(out) ==
    LET spoken == Get(out, "spoken_answer")
        cits   == Get(out, "citations")
    IN  (IF Truthy(spoken) THEN JsToString(spoken) ELSE <<>>)
            \o (IF HasCitations(cits)
                THEN EvidenceHeader
                         \o ConcatAll([i \in 1..Len(cits.v) |-> EvidenceLine(cits.v[i])])
                ELSE <<>>)

\* the reply construction throws on this model output
ReplyThrows(out) ==
    LET spoken == Get(out, "spoken_answer")
        cits   == Get(out, "citations")
    IN  \/ Truthy(spoken) /\ ~HasIncludes(spoken)
        \/ HasCitations(cits) /\ cits.t # "array"
        \/ HasCitations(cits) /\ cits.t = "array"
               /\ \E i \in 1..Len(cits.v) : ~CanRead(cits.v[i])
        \/ ~HasCitations(cits) /\ Truthy(spoken) /\ spoken.t # "string"

\* the chat route has answered a parsed, truthy model output that is not a
\* refusal
NonRefusalAnswered ==
    /\ ChatParsed
    /\ Truthy(completion.value)
    /\ LET spoken == Get(completion.value, "spoken_answer")
       IN  ~(Truthy(spoken) /\ HasIncludes(spoken) /\ Includes(spoken, RefusalPrefix))

\* C26 as stated, for the model outputs that follow the required schema: the
\* reply is spoken_answer and the evidence block with only the whitespace at
\* the end removed.
C26_OnlyTrailingTrimmed ==
    (NonRefusalAnswered /\ ValidChatOutput(completion.value)) =>
        res = Json(200, ReplyBody(Str(TrimTrailing(SpokenThenEvidence(completion.value)))))

\* C26 as amended: the reply is spoken_answer ('' when it is missing) and,
\* when there are citations, the evidence block with one line per citation
\* in the model's order, with the whitespace at both ends removed; a model
\* output on which this construction throws is answered 500.
C26_ReplyTrimmedBothEnds ==
    NonRefusalAnswered =>
        IF ReplyThrows(completion.value)
        THEN res = ChatFailure
        ELSE res = Json(200, ReplyBody(Str(Trim(SpokenThenEvidence(completion.value)))))

\* an answer that starts with whitespace and has two citations was sent
\* without that whitespace
C26_Witness ==
    /\ NonRefusalAnswered
    /\ ValidChatOutput(completion.value)
    /\ LET spoken == Get(completion.value, "spoken_answer")
           cits   == Get(completion.value, "citations")
       IN  /\ spoken.v # <<>>
           /\ IsSpace(spoken.v[1])
           /\ Len(cits.v) = 2
           /\ res.status = 200
           /\ res.body.v.reply.v # TrimTrailing(SpokenThenEvidence(completion.value))
           /\ res.body.v.reply.v[1] = "C"


\* the label the context gives a chunk
CitationLabel(chunk) == <<chunk.noteTitle, chunk.chunkIndex>>

\* C27: within one chat request no two retrieved chunks carry the same
\* citation label (note title, chunk index), also when notes of the folder
\* share a title or are untitled.
C27_UniqueCitationLabels ==
    ContextAssembled =>
        \A i, j \in 1..Len(topChunks) :
            i # j => CitationLabel(topChunks[i]) # CitationLabel(topChunks[j])


\* C28: every chunk that chunkText returns for maxChars >= 1 is non-empty
\* and holds a character that is not whitespace, the slices of a hard-split
\* paragraph included.
C28_ChunksHaveContent ==
    (cPc = "done" /\ cMax >= 1) =>
        \A i \in 1..Len(cChunks) :
            /\ cChunks[i] # <<>>
            /\ \E k \in 1..Len(cChunks[i]) : ~IsSpace(cChunks[i][k])


------------------------------------------------------------------------------
(* Isolation of the note query *)

\* the rows of table that user owns, in table order
OwnRows(table, user) == SelectSeq(table, LAMBDA row : row.user_id = user)

\* the context the route builds from the rows its query returned
ContextFrom(rows) ==
    IF req.route = "chat"
    THEN ContextText(TopChunks(ScoreChunks(AllChunks(rows), req.body.message.v)))
    ELSE IF rows = <<>> THEN <<>> ELSE StudyContextText(rows)

\* the chat or study route has run its note query
NotesFetched ==
    /\ req # NoRequest
    /\ req.route \in {"chat", "study"}
    /\ hNotes # NotFetched

\* C29: the notes that reach the context of a chat or study request are the
\* notes of the requester in the requested folder, and the same request
\* against any store that differs only in other users' notes fetches the
\* same rows and so builds the same context.
C29_OnlyOwnNotesReachContext ==
    NotesFetched =>
        /\ hNotes = SelectSeq(notes, LAMBDA row :
                        row.user_id = req.userId /\ row.folder_id = req.body.folderId.v)
        /\ contextText = ContextFrom(hNotes)
        /\ \A other \in Tables :
               OwnRows(other, req.userId) = OwnRows(notes, req.userId) =>
                   FetchNotesFrom(other, req.userId, req.body.folderId) = hNotes

\* a request was served from a folder id under which another user has a
\* note, and a store without that note exists
C29_Witness ==
    /\ NotesFetched
    /\ hNotes # <<>>
    /\ contextText # <<>>
    /\ \E i \in 1..Len(notes) :
           notes[i].user_id # req.userId /\ notes[i].folder_id = req.body.folderId.v
    /\ \E other \in Tables :
           /\ OwnRows(other, req.userId) = OwnRows(notes, req.userId)
           /\ Len(other) < Len(notes)


------------------------------------------------------------------------------
(* The note routes next to the folder routes *)

\* a row of the notes table with its id column
NoteRow(id, user, folder, title, content) ==
    [id |-> id, user_id |-> user, folder_id |-> folder,
     title |-> title, content |-> content]

\* folder_id REFERENCES folders(id): the insert is accepted for an existing row
FolderExists(rows, key) == \E i \in 1..Len(rows) : FolderKey(rows[i].id) = key

\* the values a client can send as folder_id: the ids of the folders table
\* and an id that no row has
FolderKeyValues == {FolderKey(id) : id \in 0..MaxFolderRows}

\* INSERT INTO notes (user_id, folder_id, title, content) VALUES ($1, $2, $3, $4)
InsertNote(rows, id, userId, key, title, content) ==
    Append(rows, NoteRow(id, userId, key, title, content))

\* app.post('/api/notes'): the insert resolves with 201, or it rejects on the
\* foreign key and the route answers 500
PostNote(userId, key) ==
    /\ nextId < MaxFolderRows
    /\ IF FolderExists(folders, key)
       THEN /\ nextId' = nextId + 1
            /\ notes' = InsertNote(notes, nextId + 1, userId, key,
                                   Str(Cat), Str(Chars("cat cat")))
       ELSE UNCHANGED <<notes, nextId>>
    /\ UNCHANGED <<folders, creates>>
    /\ UNCHANGED <<openai, req, hPc, hNotes, scoredChunks, topChunks, completion, res,
                   fetches, providerCalls>>
    /\ UNCHANGED <<chunkVars, scoreVars, confVars, histVars, moreVars>>

\* app.post('/api/notes/upload') for a text file and a folder_id: the title
\* is the file name, the content the text of the file
UploadNote(userId, key) ==
    /\ nextId < MaxFolderRows
    /\ IF FolderExists(folders, key)
       THEN /\ nextId' = nextId + 1
            /\ notes' = InsertNote(notes, nextId + 1, userId, key,
                                   Str(Chars("a.txt")), Str(Chars("dog")))
       ELSE UNCHANGED <<notes, nextId>>
    /\ UNCHANGED <<folders, creates>>
    /\ UNCHANGED <<openai, req, hPc, hNotes, scoredChunks, topChunks, completion, res,
                   fetches, providerCalls>>
    /\ UNCHANGED <<chunkVars, scoreVars, confVars, histVars, moreVars>>

\* app.put('/api/notes/:id'): UPDATE ... WHERE id = $3 AND user_id = $4
PutNote(userId, noteId) ==
    /\ notes' = [i \in 1..Len(notes) |->
                    IF notes[i].id = noteId /\ notes[i].user_id = userId
                    THEN [notes[i] EXCEPT !.title = Str(Chars("dog")),
                                          !.content = Str(Chars("dog cat"))]
                    ELSE notes[i]]
    /\ UNCHANGED <<folders, creates, nextId>>
    /\ UNCHANGED <<openai, req, hPc, hNotes, scoredChunks, topChunks, completion, res,
                   fetches, providerCalls>>
    /\ UNCHANGED <<chunkVars, scoreVars, confVars, histVars, moreVars>>

\* app.delete('/api/notes/:id'): DELETE FROM notes WHERE id = $1 AND user_id = $2
DeleteNote(userId, noteId) ==
    /\ notes' = SelectSeq(notes,
                    LAMBDA row : ~(row.id = noteId /\ row.user_id = userId))
    /\ UNCHANGED <<folders, creates, nextId>>
    /\ UNCHANGED <<openai, req, hPc, hNotes, scoredChunks, topChunks, completion, res,
                   fetches, providerCalls>>
    /\ UNCHANGED <<chunkVars, scoreVars, confVars, histVars, moreVars>>

NoteIds == {notes[i].id : i \in 1..Len(notes)}

\* the page whose folder requests run next to the note requests
StorePage == CHOOSE p \in Pages : TRUE

StoreNext ==
    \/ HandleCreateFolder(StorePage)
    \/ CreateFolderCount(StorePage)
    \/ CreateFolderInsert(StorePage)
    \/ CreateFolderRejected(StorePage)
    \/ \E id \in creates[StorePage].shown : DeleteFolder(StorePage, id)
    \/ \E u \in Users, key \in FolderKeyValues : PostNote(u, key)
    \/ \E u \in Users, key \in FolderKeyValues : UploadNote(u, key)
    \/ \E u \in Users, id \in NoteIds : PutNote(u, id)
    \/ \E u \in Users, id \in NoteIds : DeleteNote(u, id)

SpecStore == FolderInit /\ [][StoreNext]_vars

\* C30: after any sequence of note and folder requests by any users, every
\* note belongs to a folder of the folders table, and the owner of the note
\* is the owner of that folder, so that a folder's cascade reaches only notes
\* of the folder's owner.
C30_NoteOwnerIsFolderOwner ==
    \A i \in 1..Len(notes) :
        \E j \in 1..Len(folders) :
            /\ FolderKey(folders[j].id) = notes[i].folder_id
            /\ folders[j].user_id = notes[i].user_id

====
